---------------------------- MODULE Spec2Model ----------------------------
(***************************************************************************)
(* A model of the Vulkan ObjectCache (Initialize, pipeline objects,        *)
(* pipeline cache file, shader caches), of VertexShaderManager's dirty     *)
(* indicators and their synchronisation by SetConstants, of                *)
(* TextureEncoder::EncodeTextureToRam and of the texture cache entry       *)
(* references.                                                             *)
(*                                                                         *)
(* The Vulkan driver, the file system and the classes whose code is in     *)
(* other files (LinearDiskCache, ObjectUsageProfiler, StateTracker,        *)
(* CommandBufferManager) are the environment: a driver call that can fail  *)
(* is a nondeterministic choice of its result.  Variables prefixed vk_,    *)
(* sh_ and xf_, the logs and the last-call records hold what the driver    *)
(* was asked to do and what the calls returned; the program never reads    *)
(* them.                                                                   *)
(***************************************************************************)
EXTENDS Integers, Sequences, FiniteSets, TLC

VARIABLES
    \* ---- ObjectCache: pipeline objects and the pipeline cache
    pc_cache,                  \* "boot": constructed, Initialize not yet run; "running"
    m_pipeline_objects,        \* PipelineInfo -> VkPipeline (a function on the cached keys)
    m_pipeline_cache,          \* VkPipelineCache handle, VK_NULL_HANDLE or a live object
    pipeline_file,             \* the file GetDiskCacheFileName("pipeline") names
    vk_next_pipeline,          \* the next pipeline handle the driver hands out
    vk_destroy_count,          \* handle -> number of vkDestroyPipeline calls on it
    vk_create_calls,           \* PipelineInfo -> vkCreateGraphicsPipelines calls since the map was last emptied
    vk_created,                \* PipelineInfo -> the handle that invocation produced
    vk_cache_attempts,         \* the vkCreatePipelineCache calls of the last CreatePipelineCache
    last_call,                 \* the last call on the ObjectCache, its arguments and its result
    last_saved,                \* the data the last successful SavePipelineCache wrote, or NoData
    \* ---- ObjectCache: Initialize and the destructor
    oc_state,                  \* "constructed", "initialized", "failed" (Initialize returned false) or "crashed"
    init_log,                  \* the steps Initialize executed on this object and what each returned
    init_ret,                  \* what Initialize returned on this object
    m_utility_shader_vertex_buffer,   \* TRUE: holds a StreamBuffer; FALSE: null
    m_utility_shader_uniform_buffer,
    \* ---- ObjectCache: one of the shader caches m_vs_cache, m_gs_cache, m_ps_cache
    pc_shaders,                \* "boot": LoadShaderCaches not yet run; "running"
    stage,                     \* the cache this behaviour follows: "vs", "gs" or "ps"
    supports_gs,               \* g_vulkan_context->SupportsGeometryShaders()
    shader_map,                \* cache.shader_map: UID -> vkShaderItem (a function on the added keys)
    disk_cache,                \* cache.disk_cache: the file GetDiskCacheFileName(stage) names
    disk_at_boot,              \* the records the file held when this session read it
    sh_loaded,                 \* UIDs a record of which was inserted by ShaderCacheReader::Read
    sh_load_failed,            \* UIDs a record of which failed module creation on reading
    sh_compiles,               \* UID -> compilation attempts (Compile*ShaderForUid calls) this session
    sh_outcome,                \* UID -> what the compiler and the driver answered to that attempt
    last_shader_call,          \* the last Get*ShaderForUid call: its UID, result, whether it compiled
    \* ---- VertexShaderManager: dirty tracking over XF memory (ranges are <<min, max>>)
    s_transform_matrices_changed,
    s_normal_matrices_changed,
    nPostTransformMatricesChanged,
    s_lights_changed,
    s_tex_matrices_changed,    \* <<group A (Tex0..3), group B (Tex4..7)>>
    s_materials_changed,
    bViewportChanged,
    bProjectionChanged,
    s_lights_phong,            \* the phong settings last written (the eight as one value)
    config_phong,              \* the phong settings of g_ActiveConfig (as one value)
    matrix_index_a,            \* g_main_cp_state.matrix_index_a.Hex
    matrix_index_b,            \* g_main_cp_state.matrix_index_b.Hex
    IsFlushed,                 \* VertexManagerBase::IsFlushed
    xf_calls,                  \* InvalidateXFRange calls since the last SetConstants
    xf_invalidated,            \* per region: the words invalidated since the last SetConstants
    xf_synced,                 \* per region: what the SetConstants run by the last call found
                               \* invalidated and copied (nothing when it ran none)
    xf_written,                \* the constant groups the SetConstants run by the last call wrote,
                               \* and the matrix indices it read the texture matrices with
    xf_last,                   \* the last VertexShaderManager call
    \* ---- TextureEncoder, with the StateTracker, the command buffers and the GPU
    enc_pc,                    \* "boot", "failed", "idle", or the statement EncodeTextureToRam is at
    enc_args,                  \* the arguments of the call in progress
    enc_log,                   \* the statements the current (or last) call has executed
    enc_last,                  \* the last operation of the rendering thread
    m_texture_encoding_shaders,\* format -> shader module
    src_texels,                \* what the image behind src_texture holds
    m_encoding_texture,        \* contents of the encoding render target
    m_download_texture,        \* contents of the staging texture
    dest_mem,                  \* contents of the memory at dest_ptr
    cmd_buffer,                \* commands recorded into the current command buffer
    gpu_pending,               \* command buffers submitted and not yet completed
    m_current_render_pass,     \* StateTracker::InRenderPass()
    descriptor_sets_valid,     \* StateTracker: descriptor sets are usable as they are
    pending_rebind,            \* StateTracker: every dirty flag is set
    \* ---- TextureCacheBase: the references between texture cache entries
    references,                \* entry -> TCacheEntryBase::references
    tex_last                   \* the last call on an entry

pipeVars == << pc_cache, m_pipeline_objects, m_pipeline_cache, pipeline_file,
               vk_next_pipeline, vk_destroy_count, vk_create_calls, vk_created,
               vk_cache_attempts, last_call, last_saved >>

shaderVars == << pc_shaders, stage, supports_gs, shader_map, disk_cache, disk_at_boot,
                 sh_loaded, sh_load_failed, sh_compiles, sh_outcome, last_shader_call >>

xfVars == << s_transform_matrices_changed, s_normal_matrices_changed,
             nPostTransformMatricesChanged, s_lights_changed, s_tex_matrices_changed,
             s_materials_changed, bViewportChanged, bProjectionChanged,
             s_lights_phong, config_phong,
             matrix_index_a, matrix_index_b, IsFlushed,
             xf_calls, xf_invalidated, xf_synced, xf_written, xf_last >>

encVars == << enc_pc, enc_args, enc_log, enc_last, m_texture_encoding_shaders,
              src_texels, m_encoding_texture, m_download_texture, dest_mem,
              cmd_buffer, gpu_pending, m_current_render_pass,
              descriptor_sets_valid, pending_rebind >>

texVars == << references, tex_last >>

objVars == << oc_state, init_log, init_ret, m_utility_shader_vertex_buffer,
              m_utility_shader_uniform_buffer >>

vars == << pipeVars, shaderVars, xfVars, encVars, texVars, objVars >>

\* What the operations of one subsystem leave alone.
notPipeline == << shaderVars, xfVars, encVars, texVars, objVars >>
notShaders == << pipeVars, xfVars, encVars, texVars, objVars >>
notXF == << pipeVars, shaderVars, encVars, texVars, objVars >>
notEncoder == << pipeVars, shaderVars, xfVars, texVars, objVars >>
notTextures == << pipeVars, shaderVars, xfVars, encVars, objVars >>
notObjectCache == << xfVars, encVars, texVars >>

-----------------------------------------------------------------------------
(* Bounds *)

NumPipelineInfos == 2        \* distinct PipelineInfo values
MaxPipelines == 3            \* pipeline handles the driver hands out

MaxRecords == 3              \* records the shader cache file may grow to
MaxInvalidations == 2        \* InvalidateXFRange calls between two SetConstants
MaxCommands == 3             \* commands the renderer records before a submission
MaxPending == 1              \* command buffers submitted without waiting
NumEntries == 4              \* texture cache entries

VK_NULL_HANDLE == 0

PipelineInfos == 1 .. NumPipelineInfos
PipelineHandles == 1 .. MaxPipelines
Uids == { 1, 2 }             \* two shader UIDs of one stage: one can be loaded, the other compiled
Stages == { "vs", "gs", "ps" }

\* What vkGetPipelineCacheData may return: no byte, one byte, two bytes.
Blobs == { << >>, << 171 >>, << 171, 205 >> }
NoData == << -1 >>           \* "no data": not a blob

-----------------------------------------------------------------------------
(* std::unordered_map *)

MapFind(map, key) == key \in DOMAIN map

MapEmplace(map, key, value) ==
    IF key \in DOMAIN map THEN map
    ELSE [ k \in DOMAIN map \cup {key} |-> IF k = key THEN value ELSE map[k] ]

EmptyMap == [ k \in {} |-> VK_NULL_HANDLE ]

-----------------------------------------------------------------------------
(* LinearDiskCache<K, V> and File::Delete: a file is absent or holds a     *)
(* header and a sequence of (key, value) records.                          *)

NoFile == [ exists |-> FALSE, records |-> << >> ]
FileOf(records) == [ exists |-> TRUE, records |-> records ]

\* OpenAndRead: an absent file is created holding no record; the reader is called
\* for each record in order; the number of records is returned.
OpenAndRead_File(file) == IF file.exists THEN file ELSE FileOf(<< >>)
OpenAndRead_Count(file) == IF file.exists THEN Len(file.records) ELSE 0
OpenAndRead_Records(file) == IF file.exists THEN file.records ELSE << >>

DiskAppend(file, key, value) == FileOf(Append(file.records, [ key |-> key, value |-> value ]))

FileDelete(file) == NoFile

-----------------------------------------------------------------------------
(* ObjectCache: the pipeline cache *)

\* PipelineCacheReadCallback::Read, applied to each record in turn: the vector is
\* resized to the record's value and the value copied into it.
RECURSIVE PipelineCacheReadCallback(_, _)
PipelineCacheReadCallback(m_data, records) ==
    IF records = << >> THEN m_data
    ELSE PipelineCacheReadCallback(Head(records).value, Tail(records))

\* A CreatePipelineCache that keeps what the reader left whatever the number of
\* records the file yielded.
CreatePipelineCache_AnyCount(load_from_disk, file, cache, res1, res2) ==
    LET read == load_from_disk
        disk_data == IF read THEN PipelineCacheReadCallback(<< >>, OpenAndRead_Records(file))
                     ELSE << >>
        first == [ initial |-> disk_data, ok |-> res1 ]
        second == [ initial |-> << >>, ok |-> res2 ]
    IN  [ file     |-> IF read THEN OpenAndRead_File(file) ELSE file,
          attempts |-> IF res1 THEN << first >> ELSE << first, second >>,
          cache    |-> IF res1 \/ res2 THEN 1 ELSE cache,
          result   |-> res1 \/ res2 ]

\* ObjectCache::CreatePipelineCache(load_from_disk), with the driver's result of the
\* first (res1) and of the second (res2) vkCreatePipelineCache call: the file after
\* the call, the calls made, the handle left in m_pipeline_cache and the result.
CreatePipelineCache(load_from_disk, file, cache, res1, res2) ==
    LET read == load_from_disk
        disk_data_read == IF read THEN PipelineCacheReadCallback(<< >>, OpenAndRead_Records(file))
                          ELSE << >>
        disk_data == IF read /\ OpenAndRead_Count(file) # 1 THEN << >> ELSE disk_data_read
        first == [ initial |-> disk_data, ok |-> res1 ]
        second == [ initial |-> << >>, ok |-> res2 ]
    IN  [ file     |-> IF read THEN OpenAndRead_File(file) ELSE file,
          attempts |-> IF res1 THEN << first >> ELSE << first, second >>,
          cache    |-> IF res1 \/ res2 THEN 1 ELSE cache,
          result   |-> res1 \/ res2 ]

\* ObjectCache::DestroyPipelineCache: the destroy count after it.
DestroyCountAfter(map, count) ==
    [ h \in DOMAIN count |->
        count[h] + Cardinality({ k \in DOMAIN map : map[k] # VK_NULL_HANDLE /\ map[k] = h }) ]

\* A DestroyPipelineCache that forgets m_pipeline_objects.clear().
DestroyPipelineCache_Map_NoClear(map) == map

\* ObjectCache::DestroyPipelineCache: the map after it.
DestroyPipelineCache_Map(map) == EmptyMap

\* A GetPipeline that stores a pipeline only when its creation succeeded.
GetPipeline_RetryFailed(info, created) ==
    /\ pc_cache = "running"
    /\ IF MapFind(m_pipeline_objects, info)
       THEN /\ created = FALSE
            /\ last_call' = [ op |-> "GetPipeline", info |-> info,
                              ret |-> m_pipeline_objects[info], hit |-> TRUE ]
            /\ UNCHANGED << m_pipeline_objects, vk_next_pipeline, vk_create_calls, vk_created >>
       ELSE /\ created => vk_next_pipeline <= MaxPipelines
            /\ LET pipeline == IF created THEN vk_next_pipeline ELSE VK_NULL_HANDLE
               IN  /\ vk_create_calls' = [ vk_create_calls EXCEPT ![info] = @ + 1 ]
                   /\ vk_created' = [ vk_created EXCEPT ![info] = pipeline ]
                   /\ vk_next_pipeline' = IF created THEN vk_next_pipeline + 1 ELSE vk_next_pipeline
                   /\ m_pipeline_objects' = IF created
                                            THEN MapEmplace(m_pipeline_objects, info, pipeline)
                                            ELSE m_pipeline_objects
                   /\ last_call' = [ op |-> "GetPipeline", info |-> info,
                                     ret |-> pipeline, hit |-> FALSE ]
    /\ UNCHANGED << pc_cache, m_pipeline_cache, pipeline_file, vk_destroy_count,
                    vk_cache_attempts, last_saved >>

\* ObjectCache::GetPipeline(info); created is the driver's answer to
\* vkCreateGraphicsPipelines: TRUE for VK_SUCCESS.
GetPipeline(info, created) ==
    /\ pc_cache = "running"
    /\ IF MapFind(m_pipeline_objects, info)
       THEN /\ created = FALSE
            /\ last_call' = [ op |-> "GetPipeline", info |-> info,
                              ret |-> m_pipeline_objects[info], hit |-> TRUE ]
            /\ UNCHANGED << m_pipeline_objects, vk_next_pipeline, vk_create_calls, vk_created >>
       ELSE /\ created => vk_next_pipeline <= MaxPipelines
            /\ LET pipeline == IF created THEN vk_next_pipeline ELSE VK_NULL_HANDLE
               IN  /\ vk_create_calls' = [ vk_create_calls EXCEPT ![info] = @ + 1 ]
                   /\ vk_created' = [ vk_created EXCEPT ![info] = pipeline ]
                   /\ vk_next_pipeline' = IF created THEN vk_next_pipeline + 1 ELSE vk_next_pipeline
                   /\ m_pipeline_objects' = MapEmplace(m_pipeline_objects, info, pipeline)
                   /\ last_call' = [ op |-> "GetPipeline", info |-> info,
                                     ret |-> pipeline, hit |-> FALSE ]
    /\ UNCHANGED << pc_cache, m_pipeline_cache, pipeline_file, vk_destroy_count,
                    vk_cache_attempts, last_saved >>

\* ObjectCache::Initialize, its pipeline cache step: CreatePipelineCache(true).  When
\* it fails Initialize returns false and the object is given up.
InitializePipelineCache(res1, res2) ==
    /\ pc_cache = "boot"
    /\ LET c == CreatePipelineCache(TRUE, pipeline_file, m_pipeline_cache, res1, res2)
       IN  /\ pipeline_file' = c.file
           /\ vk_cache_attempts' = c.attempts
           /\ m_pipeline_cache' = IF c.result THEN c.cache ELSE VK_NULL_HANDLE
           /\ pc_cache' = IF c.result THEN "running" ELSE "boot"
           /\ last_call' = [ op |-> "Initialize", ret |-> c.result ]
    /\ UNCHANGED << m_pipeline_objects, vk_next_pipeline, vk_destroy_count, vk_create_calls,
                    vk_created, last_saved >>

\* ObjectCache::ClearPipelineCache: DestroyPipelineCache, then CreatePipelineCache(false).
ClearPipelineCache(res1, res2) ==
    /\ pc_cache = "running"
    /\ vk_destroy_count' = DestroyCountAfter(m_pipeline_objects, vk_destroy_count)
    /\ m_pipeline_objects' = DestroyPipelineCache_Map(m_pipeline_objects)
    /\ LET c == CreatePipelineCache(FALSE, pipeline_file, VK_NULL_HANDLE, res1, res2)
       IN  /\ pipeline_file' = c.file
           /\ vk_cache_attempts' = c.attempts
           /\ m_pipeline_cache' = c.cache
           /\ last_call' = [ op |-> "ClearPipelineCache", ret |-> c.result ]
    /\ vk_create_calls' = [ i \in PipelineInfos |-> 0 ]
    /\ vk_created' = [ i \in PipelineInfos |-> VK_NULL_HANDLE ]
    /\ UNCHANGED << pc_cache, vk_next_pipeline, last_saved >>

\* A SavePipelineCache without File::Delete: the record is appended to the old file.
SavePipelineCache_NoDelete(size_ok, data_ok, data) ==
    /\ pc_cache = "running"
    /\ IF size_ok /\ data_ok
       THEN /\ pipeline_file' = DiskAppend(OpenAndRead_File(pipeline_file), 1, data)
            /\ last_saved' = data
       ELSE /\ data = << >>
            /\ size_ok => ~data_ok
            /\ UNCHANGED << pipeline_file, last_saved >>
    /\ last_call' = [ op |-> "SavePipelineCache", ret |-> size_ok /\ data_ok ]
    /\ UNCHANGED << pc_cache, m_pipeline_objects, m_pipeline_cache, vk_next_pipeline,
                    vk_destroy_count, vk_create_calls, vk_created, vk_cache_attempts >>

\* ObjectCache::SavePipelineCache; size_ok and data_ok are the results of the two
\* vkGetPipelineCacheData calls, data what the driver returns.
SavePipelineCache(size_ok, data_ok, data) ==
    /\ pc_cache = "running"
    /\ IF size_ok /\ data_ok
       THEN /\ pipeline_file' =
                   DiskAppend(OpenAndRead_File(FileDelete(pipeline_file)), 1, data)
            /\ last_saved' = data
       ELSE /\ data = << >>
            /\ size_ok => ~data_ok
            /\ UNCHANGED << pipeline_file, last_saved >>
    /\ last_call' = [ op |-> "SavePipelineCache", ret |-> size_ok /\ data_ok ]
    /\ UNCHANGED << pc_cache, m_pipeline_objects, m_pipeline_cache, vk_next_pipeline,
                    vk_destroy_count, vk_create_calls, vk_created, vk_cache_attempts >>

\* ObjectCache::DestroyPipelineCache as ~ObjectCache calls it: every pipeline that is
\* not VK_NULL_HANDLE is destroyed, the map is cleared and the cache object is
\* destroyed (vkDestroyPipelineCache of VK_NULL_HANDLE does nothing).
DestroyPipelineCache ==
    /\ vk_destroy_count' = DestroyCountAfter(m_pipeline_objects, vk_destroy_count)
    /\ m_pipeline_objects' = DestroyPipelineCache_Map(m_pipeline_objects)
    /\ m_pipeline_cache' = VK_NULL_HANDLE
    /\ vk_create_calls' = [ i \in PipelineInfos |-> 0 ]
    /\ vk_created' = [ i \in PipelineInfos |-> VK_NULL_HANDLE ]
    /\ pc_cache' = "boot"
    /\ last_call' = [ op |-> "~ObjectCache" ]
    /\ UNCHANGED << pipeline_file, vk_next_pipeline, vk_cache_attempts, last_saved >>

\* What the shader cache directory may hold under the pipeline cache's name before
\* the first session: nothing, or a file that is not one SavePipelineCache wrote
\* (two records).
InitialPipelineFiles ==
    { NoFile,
      FileOf(<< [ key |-> 1, value |-> << 171 >> ], [ key |-> 2, value |-> << 205 >> ] >>) }

InitPipeline ==
    /\ pc_cache = "boot"
    /\ m_pipeline_objects = EmptyMap
    /\ m_pipeline_cache = VK_NULL_HANDLE
    /\ pipeline_file \in InitialPipelineFiles
    /\ vk_next_pipeline = 1
    /\ vk_destroy_count = [ h \in PipelineHandles |-> 0 ]
    /\ vk_create_calls = [ i \in PipelineInfos |-> 0 ]
    /\ vk_created = [ i \in PipelineInfos |-> VK_NULL_HANDLE ]
    /\ vk_cache_attempts = << >>
    /\ last_call = [ op |-> "none" ]
    /\ last_saved = NoData

-----------------------------------------------------------------------------
(* ObjectCache: the shader caches.  m_vs_cache, m_gs_cache and m_ps_cache share   *)
(* no state; a behaviour follows the one that stage names.  A shader module is    *)
(* named by where it came from: the module made from the file's i-th record is i, *)
(* the module compiled for UID u is -u.  The statistics counters are left out.    *)

\* ObjectUsageProfiler::GetOrAdd: the item of a key, default-constructed when new.
DefaultItem == [ initialized |-> FALSE, compiled |-> FALSE, module |-> VK_NULL_HANDLE ]

GetOrAdd(map, key) ==
    IF key \in DOMAIN map THEN map
    ELSE [ k \in DOMAIN map \cup {key} |-> IF k = key THEN DefaultItem ELSE map[k] ]

\* The SPIR-V the shader generator and compiler produce for a UID.
SpirvOf(uid) == << "spv", uid >>

CompileOutcomes == { "compile_failed", "module_failed", "created" }

\* A ShaderCacheReader::Read that inserts the module whether or not it was created.
ShaderCacheReader_Read_InsertNull(map, key, index, module_ok) ==
    [ GetOrAdd(map, key) EXCEPT ![key] =
        [ initialized |-> TRUE, compiled |-> TRUE,
          module |-> IF module_ok THEN index ELSE VK_NULL_HANDLE ] ]

\* ShaderCacheReader::Read for the index-th record of the file, key its UID;
\* module_ok: Util::CreateShaderModule returned a module.
ShaderCacheReader_Read(map, key, index, module_ok) ==
    IF ~module_ok THEN map
    ELSE [ GetOrAdd(map, key) EXCEPT ![key] =
             [ initialized |-> TRUE, compiled |-> TRUE, module |-> index ] ]

\* disk_cache.OpenAndRead(file, reader): Read for each record in order.
RECURSIVE ReadRecords(_, _, _, _)
ReadRecords(map, records, index, oks) ==
    IF index > Len(records) THEN map
    ELSE ReadRecords(ShaderCacheReader_Read(map, records[index].key, index, oks[index]),
                     records, index + 1, oks)

\* A Compile*ShaderForUid that appends the SPIR-V as soon as it compiled.
CompileShaderForUid_AppendAlways(st, uid, outcome) ==
    LET module == IF outcome = "created" THEN -uid ELSE VK_NULL_HANDLE
    IN  [ map  |-> [ st.map EXCEPT ![uid] = [ @ EXCEPT !.compiled = TRUE, !.module = module ] ],
          file |-> IF outcome # "compile_failed"
                   THEN DiskAppend(st.file, uid, SpirvOf(uid)) ELSE st.file,
          compiles |-> [ st.compiles EXCEPT ![uid] = @ + 1 ],
          outcome  |-> [ st.outcome EXCEPT ![uid] = outcome ] ]

\* ObjectCache::CompileVertexShaderForUid / CompileGeometryShaderForUid /
\* CompilePixelShaderForUid (uid, it), with what ShaderCompiler and
\* Util::CreateShaderModule answer.  st holds the map, the file and the record of
\* the attempts.
CompileShaderForUid(st, uid, outcome) ==
    LET module == IF outcome = "created" THEN -uid ELSE VK_NULL_HANDLE
    IN  [ map  |-> [ st.map EXCEPT ![uid] = [ @ EXCEPT !.compiled = TRUE, !.module = module ] ],
          file |-> IF module # VK_NULL_HANDLE
                   THEN DiskAppend(st.file, uid, SpirvOf(uid)) ELSE st.file,
          compiles |-> [ st.compiles EXCEPT ![uid] = @ + 1 ],
          outcome  |-> [ st.outcome EXCEPT ![uid] = outcome ] ]

\* A lookup that compiles again whenever the stored module is VK_NULL_HANDLE.
LookupOrCompile_RetryNull(st, uid, outcome) ==
    LET added == [ st EXCEPT !.map = GetOrAdd(st.map, uid) ]
    IN  IF added.map[uid].module # VK_NULL_HANDLE THEN added
        ELSE CompileShaderForUid(
                 [ added EXCEPT !.map = [ added.map EXCEPT ![uid].initialized = TRUE ] ],
                 uid, outcome)

\* The body shared by Get*ShaderForUid and by the compile-on-startup callbacks:
\* GetOrAdd, then compile unless initialized.test_and_set() finds the flag set.
LookupOrCompile(st, uid, outcome) ==
    LET added == [ st EXCEPT !.map = GetOrAdd(st.map, uid) ]
    IN  IF added.map[uid].initialized THEN added
        ELSE CompileShaderForUid(
                 [ added EXCEPT !.map = [ added.map EXCEPT ![uid].initialized = TRUE ] ],
                 uid, outcome)

\* ObjectUsageProfiler::ForEachMostUsedByCategory(gameid, func, pred, true) as
\* LoadShaderCaches calls it: func is called, in the profile's order, for each
\* profiled UID whose item is not compiled.
RECURSIVE ForEachMostUsed(_, _, _)
ForEachMostUsed(st, profile, outcomes) ==
    IF profile = << >> THEN st
    ELSE LET uid == Head(profile)
             skip == uid \in DOMAIN st.map /\ st.map[uid].compiled
         IN  ForEachMostUsed(IF skip THEN st ELSE LookupOrCompile(st, uid, outcomes[uid]),
                             Tail(profile), outcomes)

\* The orders in which a usage profile may list UIDs.
Profiles == { p \in UNION { [ 1 .. n -> Uids ] : n \in 0 .. Cardinality(Uids) } :
                \A i, j \in DOMAIN p : i # j => p[i] # p[j] }

StageActive == stage # "gs" \/ supports_gs

\* The records LoadShaderCaches hands to ShaderCacheReader::Read.
StoredRecords == IF StageActive THEN OpenAndRead_Records(disk_cache) ELSE << >>

\* ObjectCache::LoadShaderCaches, for the cache followed: the file is read (for the
\* geometry shaders only when they are supported), then the profiled UIDs are
\* compiled when bCompileShaderOnStartup is set.
LoadShaderCaches(oks, bCompileShaderOnStartup, profile, outcomes) ==
    /\ oc_state = "constructed"
    /\ pc_shaders = "boot"
    /\ LET records == StoredRecords
           opened == IF StageActive THEN OpenAndRead_File(disk_cache) ELSE disk_cache
           read == ReadRecords([ k \in {} |-> DefaultItem ], records, 1, oks)
           st0 == [ map |-> read, file |-> opened,
                    compiles |-> [ u \in Uids |-> 0 ],
                    outcome |-> [ u \in Uids |-> "none" ] ]
           st1 == IF bCompileShaderOnStartup /\ StageActive
                  THEN ForEachMostUsed(st0, profile, outcomes) ELSE st0
       IN  /\ DOMAIN oks = 1 .. Len(records)
           /\ Len(st1.file.records) <= MaxRecords
           /\ shader_map' = st1.map
           /\ disk_cache' = st1.file
           /\ sh_compiles' = st1.compiles
           /\ sh_outcome' = st1.outcome
           /\ disk_at_boot' = records
           /\ sh_loaded' = { records[i].key : i \in { j \in DOMAIN oks : oks[j] } }
           /\ sh_load_failed' = { records[i].key : i \in { j \in DOMAIN oks : ~oks[j] } }
    /\ pc_shaders' = "running"
    /\ last_shader_call' = [ op |-> "LoadShaderCaches" ]
    /\ UNCHANGED << stage, supports_gs >>

\* The body of ObjectCache::GetVertexShaderForUid, GetGeometryShaderForUid and
\* GetPixelShaderForUid.
GetShaderForUid(name, uid, outcome) ==
    /\ pc_shaders = "running"
    /\ LET st0 == [ map |-> shader_map, file |-> disk_cache,
                    compiles |-> sh_compiles, outcome |-> sh_outcome ]
           st1 == LookupOrCompile(st0, uid, outcome)
       IN  /\ st1.compiles = st0.compiles => outcome = "created"
           /\ Len(st1.file.records) <= MaxRecords
           /\ shader_map' = st1.map
           /\ disk_cache' = st1.file
           /\ sh_compiles' = st1.compiles
           /\ sh_outcome' = st1.outcome
           /\ last_shader_call' = [ op |-> name, uid |-> uid, ret |-> st1.map[uid].module,
                                    compiled |-> st1.compiles # st0.compiles ]
    /\ UNCHANGED << pc_shaders, stage, supports_gs, disk_at_boot, sh_loaded, sh_load_failed >>

GetVertexShaderForUid(uid, outcome) ==
    /\ stage = "vs"
    /\ GetShaderForUid("GetVertexShaderForUid", uid, outcome)

\* _assert_(g_vulkan_context->SupportsGeometryShaders()) is the call's precondition.
GetGeometryShaderForUid(uid, outcome) ==
    /\ stage = "gs"
    /\ supports_gs
    /\ GetShaderForUid("GetGeometryShaderForUid", uid, outcome)

GetPixelShaderForUid(uid, outcome) ==
    /\ stage = "ps"
    /\ GetShaderForUid("GetPixelShaderForUid", uid, outcome)

\* ObjectCache::DestroyShaderCaches (from ~ObjectCache) on caches LoadShaderCaches
\* has created: the file is closed, the modules are destroyed and the map is
\* released.
DestroyShaderCaches ==
    /\ pc_shaders' = "boot"
    /\ shader_map' = [ k \in {} |-> DefaultItem ]
    /\ disk_at_boot' = << >>
    /\ sh_loaded' = {}
    /\ sh_load_failed' = {}
    /\ sh_compiles' = [ u \in Uids |-> 0 ]
    /\ sh_outcome' = [ u \in Uids |-> "none" ]
    /\ last_shader_call' = [ op |-> "DestroyShaderCaches" ]
    /\ UNCHANGED << stage, supports_gs, disk_cache >>

InitShaders ==
    /\ pc_shaders = "boot"
    /\ stage \in Stages
    /\ supports_gs \in IF stage = "gs" THEN BOOLEAN ELSE { TRUE }
    /\ shader_map = [ k \in {} |-> DefaultItem ]
    /\ disk_cache = NoFile
    /\ disk_at_boot = << >>
    /\ sh_loaded = {}
    /\ sh_load_failed = {}
    /\ sh_compiles = [ u \in Uids |-> 0 ]
    /\ sh_outcome = [ u \in Uids |-> "none" ]
    /\ last_shader_call = [ op |-> "none" ]

-----------------------------------------------------------------------------
(* VertexShaderManager: the dirty ranges over XF memory and the texture matrix     *)
(* flags.  Ranges are <<min, max>> (the code's [0] and [1]); <<-1, -1>> is clean.  *)
(* The phong constants and the values copied are left out: the model records       *)
(* which words each SetConstants copies.                                           *)

\* The XF memory map, in words.
XFMEM_POSMATRICES_END == 256
XFMEM_NORMALMATRICES == 1024
XFMEM_NORMALMATRICES_END == 1120
XFMEM_POSTMATRICES == 1280
XFMEM_POSTMATRICES_END == 1536
XFMEM_LIGHTS == 1536
XFMEM_LIGHTS_END == 1664

Clean == << -1, -1 >>

Regions == { "transform", "normal", "post", "lights" }

\* The 6-bit field of a matrix index register that starts at bit shift.
MtxIdx(hex, shift) == (hex \div (2 ^ shift)) % 64

\* TMatrixIndexA: PosNormalMtxIdx, Tex0MtxIdx .. Tex3MtxIdx.
TexMtxIdxA(hex) == { MtxIdx(hex, 6), MtxIdx(hex, 12), MtxIdx(hex, 18), MtxIdx(hex, 24) }

\* TMatrixIndexB: Tex4MtxIdx .. Tex7MtxIdx.
TexMtxIdxB(hex) == { MtxIdx(hex, 0), MtxIdx(hex, 6), MtxIdx(hex, 12), MtxIdx(hex, 18) }

\* The test InvalidateXFRange applies for each selected texture matrix.
TexMatrixHit(start, selected) ==
    \E idx \in selected : start >= idx * 4 /\ start < idx * 4 + 12

\* The if/else that widens a dirty range by [start_, end_).
WidenRange(changed, start_, end_) ==
    IF changed[1] = -1 THEN << start_, end_ >>
    ELSE << IF changed[1] > start_ THEN start_ ELSE changed[1],
            IF changed[2] < end_ THEN end_ ELSE changed[2] >>

\* InvalidateXFRange, position matrices.
InvalidateTransformMatrices(changed, start, end) ==
    IF start < XFMEM_POSMATRICES_END
    THEN LET clamped == IF end > XFMEM_POSMATRICES_END THEN XFMEM_POSMATRICES_END ELSE end
         IN  IF changed[1] = -1 THEN << start, clamped >>
             ELSE << IF changed[1] > start THEN start ELSE changed[1],
                     IF changed[2] < end THEN clamped ELSE changed[2] >>
    ELSE changed

\* InvalidateXFRange, normal matrices.
InvalidateNormalMatrices(changed, start, end) ==
    IF start < XFMEM_NORMALMATRICES_END /\ end > XFMEM_NORMALMATRICES
    THEN WidenRange(changed,
             IF start < XFMEM_NORMALMATRICES THEN 0 ELSE start - XFMEM_NORMALMATRICES,
             IF end < XFMEM_NORMALMATRICES_END THEN end - XFMEM_NORMALMATRICES
             ELSE XFMEM_NORMALMATRICES_END - XFMEM_NORMALMATRICES)
    ELSE changed

\* InvalidateXFRange, post-transform matrices.
InvalidatePostMatrices(changed, start, end) ==
    IF start < XFMEM_POSTMATRICES_END /\ end > XFMEM_POSTMATRICES
    THEN WidenRange(changed,
             IF start < XFMEM_POSTMATRICES THEN XFMEM_POSTMATRICES
             ELSE start - XFMEM_POSTMATRICES,
             IF end < XFMEM_POSTMATRICES_END THEN end - XFMEM_POSTMATRICES
             ELSE XFMEM_POSTMATRICES_END - XFMEM_POSTMATRICES)
    ELSE changed

\* InvalidateXFRange, lights.
InvalidateLights(changed, start, end) ==
    IF start < XFMEM_LIGHTS_END /\ end > XFMEM_LIGHTS
    THEN WidenRange(changed,
             IF start < XFMEM_LIGHTS THEN XFMEM_LIGHTS ELSE start - XFMEM_LIGHTS,
             IF end < XFMEM_LIGHTS_END THEN end - XFMEM_LIGHTS
             ELSE XFMEM_LIGHTS_END - XFMEM_LIGHTS)
    ELSE changed

WordsPerRow == [ transform |-> 4, normal |-> 3, post |-> 4, lights |-> 16 ]

\* SetConstants, the transform, normal and post-transform blocks: the words, as
\* <<first, past the last>>, of the one SetMultiConstant call made for a dirty
\* range: rows startn .. endn - 1, per_row being 4, 3 and 4.  The call is made
\* whatever endn - startn is; << 0, 0 >> for a clean range (no call).
CopiedWords(changed, per_row) ==
    IF changed[1] >= 0
    THEN LET startn == changed[1] \div per_row
             endn == (changed[2] + (per_row - 1)) \div per_row
         IN  << startn * per_row, endn * per_row >>
    ELSE << 0, 0 >>

\* SetConstants, the lights block: the words of the lights istart .. iend - 1 the
\* for loop writes; << 0, 0 >> when the loop body never runs.
CopiedLights(changed) ==
    IF changed[1] >= 0
    THEN LET istart == changed[1] \div 16
             iend == (changed[2] + 15) \div 16
         IN  IF istart < iend THEN << istart * 16, iend * 16 >> ELSE << 0, 0 >>
    ELSE << 0, 0 >>

\* The regions SetConstants copies with one SetMultiConstant call.
MatrixRegions == { "transform", "normal", "post" }

\* SetConstants on d makes a SetMultiConstant call whose count endn - startn is
\* negative, from a pointer past the end of the region.
NegativeCount(d) ==
    \E r \in MatrixRegions :
        d[r][1] >= 0 /\ CopiedWords(d[r], WordsPerRow[r])[2] < CopiedWords(d[r], WordsPerRow[r])[1]

\* What such a call does is undefined: the process is killed by the copy, or the
\* call comes back.
NegativeCountOutcomes == { "crash", "return" }

RegionBase ==
    [ transform |-> 0, normal |-> XFMEM_NORMALMATRICES,
      post |-> XFMEM_POSTMATRICES, lights |-> XFMEM_LIGHTS ]

RegionEnd ==
    [ transform |-> XFMEM_POSMATRICES_END, normal |-> XFMEM_NORMALMATRICES_END,
      post |-> XFMEM_POSTMATRICES_END, lights |-> XFMEM_LIGHTS_END ]

\* The words of [start, end) that lie in region r, relative to the region's first
\* word, as <<first, past the last>>; Clean when there are none.
WordsInRegion(r, start, end) ==
    IF start < RegionEnd[r] /\ end > RegionBase[r]
    THEN << (IF start > RegionBase[r] THEN start ELSE RegionBase[r]) - RegionBase[r],
            (IF end < RegionEnd[r] THEN end ELSE RegionEnd[r]) - RegionBase[r] >>
    ELSE Clean

\* The first and past-the-last invalidated word of a region after one more call.
\* SetConstants copies one run of rows per region, so it covers every invalidated
\* word exactly when it covers these two.
WithInvalidated(seen, part) ==
    IF part = Clean THEN seen
    ELSE IF seen = Clean THEN part
    ELSE << IF part[1] < seen[1] THEN part[1] ELSE seen[1],
            IF part[2] > seen[2] THEN part[2] ELSE seen[2] >>

NoSync == [ r \in Regions |-> [ invalidated |-> Clean, copied |-> << 0, 0 >> ] ]

\* No constant group written; -1: the texture matrices of that group were not read.
NoWrites == [ groups |-> {}, index_a |-> -1, index_b |-> -1 ]

\* The dirty indicators and the record of invalidated words, as one value, on
\* entry to a call.
DirtyState ==
    [ transform |-> s_transform_matrices_changed, normal |-> s_normal_matrices_changed,
      post |-> nPostTransformMatricesChanged, lights |-> s_lights_changed,
      tex |-> s_tex_matrices_changed, materials |-> s_materials_changed,
      viewport |-> bViewportChanged, projection |-> bProjectionChanged,
      phong |-> s_lights_phong,
      calls |-> xf_calls, invalidated |-> xf_invalidated, synced |-> NoSync,
      written |-> NoWrites, crashed |-> FALSE ]

StoreDirtyState(d) ==
    /\ s_transform_matrices_changed' = d.transform
    /\ s_normal_matrices_changed' = d.normal
    /\ nPostTransformMatricesChanged' = d.post
    /\ s_lights_changed' = d.lights
    /\ s_tex_matrices_changed' = d.tex
    /\ s_materials_changed' = d.materials
    /\ bViewportChanged' = d.viewport
    /\ bProjectionChanged' = d.projection
    /\ s_lights_phong' = d.phong
    /\ xf_calls' = d.calls
    /\ xf_invalidated' = d.invalidated
    /\ xf_synced' = d.synced
    /\ xf_written' = d.written

\* The process has not been killed inside a SetConstants.
XFRunning == xf_last.op # "crashed"

\* The dirty indicators as they are left when the process is killed.
KeepDirtyState ==
    UNCHANGED << s_transform_matrices_changed, s_normal_matrices_changed,
                 nPostTransformMatricesChanged, s_lights_changed, s_tex_matrices_changed,
                 s_materials_changed, bViewportChanged, bProjectionChanged, s_lights_phong,
                 xf_calls, xf_invalidated, xf_synced, xf_written >>

\* VertexShaderManager::Dirty.
Dirty(d) ==
    [ d EXCEPT !.transform = << 0, 256 >>, !.normal = << 0, 96 >>,
               !.post = << 0, 256 >>, !.lights = << 0, 128 >>,
               !.tex = << TRUE, TRUE >>, !.projection = TRUE, !.materials = 15,
               !.phong = 0 ]

\* A SetConstants that writes the depth parameters and leaves bViewportChanged set.
SetConstantsOn_KeepViewportFlag(d, bSupportsOversizedViewports, negative_count) ==
    LET projection == d.projection \/ (d.viewport /\ ~bSupportsOversizedViewports)
        groups == (IF config_phong # d.phong THEN { "phong" } ELSE {})
                  \cup { r \in MatrixRegions : d[r][1] >= 0 }
                  \cup (IF CopiedLights(d.lights) # << 0, 0 >> THEN { "lights" } ELSE {})
                  \cup (IF d.materials # 0 THEN { "materials" } ELSE {})
                  \cup (IF d.tex[1] THEN { "tex_a" } ELSE {})
                  \cup (IF d.tex[2] THEN { "tex_b" } ELSE {})
                  \cup (IF d.viewport THEN { "depthparams" } ELSE {})
                  \cup (IF projection THEN { "projection" } ELSE {})
    IN  [ d EXCEPT !.transform = Clean, !.normal = Clean, !.post = Clean, !.lights = Clean,
                   !.materials = 0, !.tex = << FALSE, FALSE >>,
                   !.projection = FALSE,
                   !.phong = config_phong,
                   !.calls = 0,
                   !.invalidated = [ r \in Regions |-> Clean ],
                   !.synced = [ r \in Regions |->
                                  [ invalidated |-> d.invalidated[r],
                                    copied |-> IF r = "lights" THEN CopiedLights(d[r])
                                               ELSE CopiedWords(d[r], WordsPerRow[r]) ] ],
                   !.crashed = NegativeCount(d) /\ negative_count = "crash",
                   !.written = [ groups |-> groups,
                                 index_a |-> IF d.tex[1] THEN matrix_index_a ELSE -1,
                                 index_b |-> IF d.tex[2] THEN matrix_index_b ELSE -1 ] ]

\* VertexShaderManager::SetConstants on the dirty indicators d: every dirty group
\* is written and marked clean; the phong constants are written when the settings
\* differ from the ones last written; a changed viewport also marks the projection
\* unless the backend supports oversized viewports.  negative_count is the outcome
\* of a SetMultiConstant call with a negative count, when one is made.
SetConstantsOn(d, bSupportsOversizedViewports, negative_count) ==
    LET projection == d.projection \/ (d.viewport /\ ~bSupportsOversizedViewports)
        groups == (IF config_phong # d.phong THEN { "phong" } ELSE {})
                  \cup { r \in MatrixRegions : d[r][1] >= 0 }
                  \cup (IF CopiedLights(d.lights) # << 0, 0 >> THEN { "lights" } ELSE {})
                  \cup (IF d.materials # 0 THEN { "materials" } ELSE {})
                  \cup (IF d.tex[1] THEN { "tex_a" } ELSE {})
                  \cup (IF d.tex[2] THEN { "tex_b" } ELSE {})
                  \cup (IF d.viewport THEN { "depthparams" } ELSE {})
                  \cup (IF projection THEN { "projection" } ELSE {})
    IN  [ d EXCEPT !.transform = Clean, !.normal = Clean, !.post = Clean, !.lights = Clean,
                   !.materials = 0, !.tex = << FALSE, FALSE >>,
                   !.viewport = FALSE, !.projection = FALSE,
                   !.phong = config_phong,
                   !.calls = 0,
                   !.invalidated = [ r \in Regions |-> Clean ],
                   !.synced = [ r \in Regions |->
                                  [ invalidated |-> d.invalidated[r],
                                    copied |-> IF r = "lights" THEN CopiedLights(d[r])
                                               ELSE CopiedWords(d[r], WordsPerRow[r]) ] ],
                   !.crashed = NegativeCount(d) /\ negative_count = "crash",
                   !.written = [ groups |-> groups,
                                 index_a |-> IF d.tex[1] THEN matrix_index_a ELSE -1,
                                 index_b |-> IF d.tex[2] THEN matrix_index_b ELSE -1 ] ]

\* VertexShaderManager::InvalidateXFRange(start, end).
InvalidateXFRange(start, end) ==
    /\ XFRunning
    /\ xf_calls < MaxInvalidations
    /\ LET d == DirtyState
       IN  StoreDirtyState(
               [ d EXCEPT
                   !.tex = << d.tex[1] \/ TexMatrixHit(start, TexMtxIdxA(matrix_index_a)),
                              d.tex[2] \/ TexMatrixHit(start, TexMtxIdxB(matrix_index_b)) >>,
                   !.transform = InvalidateTransformMatrices(d.transform, start, end),
                   !.normal = InvalidateNormalMatrices(d.normal, start, end),
                   !.post = InvalidatePostMatrices(d.post, start, end),
                   !.lights = InvalidateLights(d.lights, start, end),
                   !.calls = d.calls + 1,
                   !.invalidated =
                       [ r \in Regions |->
                           WithInvalidated(d.invalidated[r], WordsInRegion(r, start, end)) ] ])
    /\ xf_last' = [ op |-> "InvalidateXFRange", start |-> start, end |-> end ]
    /\ UNCHANGED << matrix_index_a, matrix_index_b, IsFlushed, config_phong >>

\* VertexShaderManager::SetConstants.
SetConstants(bSupportsOversizedViewports, negative_count) ==
    /\ XFRunning
    /\ negative_count = "none" <=> ~NegativeCount(DirtyState)
    /\ LET d == SetConstantsOn(DirtyState, bSupportsOversizedViewports, negative_count)
       IN  IF d.crashed
           THEN /\ KeepDirtyState
                /\ xf_last' = [ op |-> "crashed", in |-> "SetConstants" ]
           ELSE /\ StoreDirtyState(d)
                /\ xf_last' = [ op |-> "SetConstants",
                                repeated |-> xf_last.op = "SetConstants" ]
    /\ UNCHANGED << matrix_index_a, matrix_index_b, IsFlushed, config_phong >>

\* VertexManagerBase::Flush: nothing when IsFlushed, else DoFlush, which draws the
\* pending vertices with the constants SetConstants syncs (unless the primitives
\* are all culled) and sets IsFlushed.
FlushOn(d, cull_all, bSupportsOversizedViewports, negative_count) ==
    IF IsFlushed \/ cull_all THEN d
    ELSE SetConstantsOn(d, bSupportsOversizedViewports, negative_count)

\* A SetTexMatrixChangedA that marks the group and stores the value before it flushes.
SetTexMatrixChangedA_StoreBeforeFlush(Value, cull_all, bSupportsOversizedViewports, negative_count) ==
    /\ XFRunning
    /\ negative_count = "none" <=>
          ~(matrix_index_a # Value /\ ~IsFlushed /\ ~cull_all /\ NegativeCount(DirtyState))
    /\ IF matrix_index_a # Value
       THEN
            /\ LET marked == [ DirtyState EXCEPT !.tex[1] = TRUE ]
                   flushed == FlushOn(marked, cull_all, bSupportsOversizedViewports,
                                      negative_count)
               IN  IF flushed.crashed
                   THEN /\ KeepDirtyState
                        /\ UNCHANGED << IsFlushed, matrix_index_a >>
                        /\ xf_last' = [ op |-> "crashed", in |-> "SetTexMatrixChangedA" ]
                   ELSE /\ StoreDirtyState([ flushed EXCEPT !.written.index_a =
                                                               IF @ = -1 THEN -1 ELSE Value ])
                        /\ IsFlushed' = TRUE
                        /\ matrix_index_a' = Value
                        /\ xf_last' = [ op |-> "SetTexMatrixChangedA", value |-> Value,
                                        flushed |-> ~IsFlushed ]
       ELSE /\ UNCHANGED << s_transform_matrices_changed, s_normal_matrices_changed,
                         nPostTransformMatricesChanged, s_lights_changed,
                         s_tex_matrices_changed, s_materials_changed, bViewportChanged,
                         bProjectionChanged, s_lights_phong, xf_calls, xf_invalidated,
                         IsFlushed, matrix_index_a >>
            /\ xf_synced' = NoSync
            /\ xf_written' = NoWrites
            /\ xf_last' = [ op |-> "SetTexMatrixChangedA", value |-> Value,
                            flushed |-> FALSE ]
    /\ UNCHANGED << matrix_index_b, config_phong >>

\* VertexShaderManager::SetTexMatrixChangedA(Value); negative_count as in
\* SetConstants, for the flush.
SetTexMatrixChangedA(Value, cull_all, bSupportsOversizedViewports, negative_count) ==
    /\ XFRunning
    /\ negative_count = "none" <=>
          ~(matrix_index_a # Value /\ ~IsFlushed /\ ~cull_all /\ NegativeCount(DirtyState))
    /\ IF matrix_index_a # Value
       THEN
            /\ LET flushed == FlushOn(DirtyState, cull_all, bSupportsOversizedViewports,
                                      negative_count)
               IN  IF flushed.crashed
                   THEN /\ KeepDirtyState
                        /\ UNCHANGED << IsFlushed, matrix_index_a >>
                        /\ xf_last' = [ op |-> "crashed", in |-> "SetTexMatrixChangedA" ]
                   ELSE /\ StoreDirtyState([ flushed EXCEPT !.tex[1] = TRUE ])
                        /\ IsFlushed' = TRUE
                        /\ matrix_index_a' = Value
                        /\ xf_last' = [ op |-> "SetTexMatrixChangedA", value |-> Value,
                                        flushed |-> ~IsFlushed ]
       ELSE /\ UNCHANGED << s_transform_matrices_changed, s_normal_matrices_changed,
                         nPostTransformMatricesChanged, s_lights_changed,
                         s_tex_matrices_changed, s_materials_changed, bViewportChanged,
                         bProjectionChanged, s_lights_phong, xf_calls, xf_invalidated,
                         IsFlushed, matrix_index_a >>
            /\ xf_synced' = NoSync
            /\ xf_written' = NoWrites
            /\ xf_last' = [ op |-> "SetTexMatrixChangedA", value |-> Value,
                            flushed |-> FALSE ]
    /\ UNCHANGED << matrix_index_b, config_phong >>

\* VertexShaderManager::SetTexMatrixChangedB(Value).
SetTexMatrixChangedB(Value, cull_all, bSupportsOversizedViewports, negative_count) ==
    /\ XFRunning
    /\ negative_count = "none" <=>
          ~(matrix_index_b # Value /\ ~IsFlushed /\ ~cull_all /\ NegativeCount(DirtyState))
    /\ IF matrix_index_b # Value
       THEN
            /\ LET flushed == FlushOn(DirtyState, cull_all, bSupportsOversizedViewports,
                                      negative_count)
               IN  IF flushed.crashed
                   THEN /\ KeepDirtyState
                        /\ UNCHANGED << IsFlushed, matrix_index_b >>
                        /\ xf_last' = [ op |-> "crashed", in |-> "SetTexMatrixChangedB" ]
                   ELSE /\ StoreDirtyState([ flushed EXCEPT !.tex[2] = TRUE ])
                        /\ IsFlushed' = TRUE
                        /\ matrix_index_b' = Value
                        /\ xf_last' = [ op |-> "SetTexMatrixChangedB", value |-> Value,
                                        flushed |-> ~IsFlushed ]
       ELSE /\ UNCHANGED << s_transform_matrices_changed, s_normal_matrices_changed,
                         nPostTransformMatricesChanged, s_lights_changed,
                         s_tex_matrices_changed, s_materials_changed, bViewportChanged,
                         bProjectionChanged, s_lights_phong, xf_calls, xf_invalidated,
                         IsFlushed, matrix_index_b >>
            /\ xf_synced' = NoSync
            /\ xf_written' = NoWrites
            /\ xf_last' = [ op |-> "SetTexMatrixChangedB", value |-> Value,
                            flushed |-> FALSE ]
    /\ UNCHANGED << matrix_index_a, config_phong >>

\* Vertices are queued for drawing: the vertex manager is no longer flushed.
AddVertices ==
    /\ XFRunning
    /\ IsFlushed
    /\ IsFlushed' = FALSE
    /\ xf_last' = [ op |-> "AddVertices" ]
    /\ xf_synced' = NoSync
    /\ xf_written' = NoWrites
    /\ UNCHANGED << s_transform_matrices_changed, s_normal_matrices_changed,
                    nPostTransformMatricesChanged, s_lights_changed,
                    s_tex_matrices_changed, s_materials_changed, bViewportChanged,
                    bProjectionChanged, s_lights_phong, config_phong, xf_calls,
                    xf_invalidated, matrix_index_a, matrix_index_b >>

\* PointerWrap::Mode.
PointerWrapModes == { "MODE_READ", "MODE_WRITE", "MODE_MEASURE", "MODE_VERIFY" }

\* The statements of DoState, in order: the six p.Do calls, then Dirty() in read mode.
DoStateStatements(mode) ==
    << "p.Do(g_fProjectionMatrix)", "p.Do(s_viewportCorrection)",
       "p.Do(s_viewRotationMatrix)", "p.Do(s_viewInvRotationMatrix)",
       "p.Do(s_fViewTranslationVector)", "p.Do(s_fViewRotation)" >>
      \o (IF mode = "MODE_READ" THEN << "Dirty()" >> ELSE << >>)

\* VertexShaderManager::DoState(p), p.GetMode() being mode.
DoState(mode) ==
    /\ XFRunning
    /\ StoreDirtyState(IF mode = "MODE_READ" THEN Dirty(DirtyState) ELSE DirtyState)
    /\ xf_last' = [ op |-> "DoState", mode |-> mode, log |-> DoStateStatements(mode) ]
    /\ UNCHANGED << matrix_index_a, matrix_index_b, IsFlushed, config_phong >>

\* VertexShaderManager::SetViewportChanged.
SetViewportChanged ==
    /\ XFRunning
    /\ StoreDirtyState([ DirtyState EXCEPT !.viewport = TRUE ])
    /\ xf_last' = [ op |-> "SetViewportChanged" ]
    /\ UNCHANGED << matrix_index_a, matrix_index_b, IsFlushed, config_phong >>

\* VertexShaderManager::ResetView: the view is reset (its values are left out) and
\* the projection is marked changed.
ResetView ==
    /\ XFRunning
    /\ StoreDirtyState([ DirtyState EXCEPT !.projection = TRUE ])
    /\ xf_last' = [ op |-> "ResetView" ]
    /\ UNCHANGED << matrix_index_a, matrix_index_b, IsFlushed, config_phong >>

\* VertexShaderManager::TranslateView(x, y, z): the free-look translation is moved
\* (its values are left out) and the projection is marked changed.
TranslateView ==
    /\ XFRunning
    /\ StoreDirtyState([ DirtyState EXCEPT !.projection = TRUE ])
    /\ xf_last' = [ op |-> "TranslateView" ]
    /\ UNCHANGED << matrix_index_a, matrix_index_b, IsFlushed, config_phong >>

\* VertexShaderManager::RotateView(x, y): the free-look rotation is turned (its
\* values are left out) and the projection is marked changed.
RotateView ==
    /\ XFRunning
    /\ StoreDirtyState([ DirtyState EXCEPT !.projection = TRUE ])
    /\ xf_last' = [ op |-> "RotateView" ]
    /\ UNCHANGED << matrix_index_a, matrix_index_b, IsFlushed, config_phong >>

\* The user changes the phong settings of g_ActiveConfig.
SetPhongConfig(value) ==
    /\ XFRunning
    /\ value # config_phong
    /\ config_phong' = value
    /\ StoreDirtyState(DirtyState)
    /\ xf_last' = [ op |-> "SetPhongConfig" ]
    /\ UNCHANGED << matrix_index_a, matrix_index_b, IsFlushed >>

PhongSettings == { 0, 1 }

\* The XF loads explored, as <<start, end>>: inside and across the ends of the
\* tracked regions.
XFRanges == { << 3, 5 >>, << 254, 258 >>, << 1022, 1026 >>, << 1118, 1122 >>,
              << 1279, 1281 >>, << 1285, 1287 >>, << 1535, 1537 >>, << 1552, 1556 >> }

\* Matrix index register values: every index 0, and every index 1.
MatrixIndexValuesA == { 0, 64 + 4096 + 262144 + 16777216 }
MatrixIndexValuesB == { 0, 1 + 64 + 4096 + 262144 }

\* VertexShaderManager::Init, with the matrix index registers and IsFlushed as the
\* video backend starts with them.
InitXF ==
    /\ LET d == Dirty([ transform |-> Clean, normal |-> Clean, post |-> Clean,
                        lights |-> Clean, tex |-> << FALSE, FALSE >>, materials |-> 0,
                        viewport |-> FALSE, projection |-> FALSE, phong |-> 0,
                        calls |-> 0, invalidated |-> [ r \in Regions |-> Clean ],
                        synced |-> NoSync, written |-> NoWrites,
                        crashed |-> FALSE ])
       IN  /\ s_transform_matrices_changed = d.transform
           /\ s_normal_matrices_changed = d.normal
           /\ nPostTransformMatricesChanged = d.post
           /\ s_lights_changed = d.lights
           /\ s_tex_matrices_changed = d.tex
           /\ s_materials_changed = d.materials
           /\ bViewportChanged = d.viewport
           /\ bProjectionChanged = d.projection
           /\ s_lights_phong = d.phong
           /\ xf_calls = d.calls
           /\ xf_invalidated = d.invalidated
           /\ xf_synced = d.synced
           /\ xf_written = d.written
    /\ config_phong = 1
    /\ matrix_index_a = 0
    /\ matrix_index_b = 0
    /\ IsFlushed = TRUE
    /\ xf_last = [ op |-> "Init" ]

NextXF ==
    \/ \E range \in XFRanges :
          InvalidateXFRange(range[1], range[2]) /\ UNCHANGED notXF
    \/ \E oversized \in BOOLEAN, negative_count \in NegativeCountOutcomes \cup { "none" } :
          SetConstants(oversized, negative_count) /\ UNCHANGED notXF
    \/ \E Value \in MatrixIndexValuesA, cull_all, oversized \in BOOLEAN,
             negative_count \in NegativeCountOutcomes \cup { "none" } :
          SetTexMatrixChangedA(Value, cull_all, oversized, negative_count)
          /\ UNCHANGED notXF
    \/ \E Value \in MatrixIndexValuesB, cull_all, oversized \in BOOLEAN,
             negative_count \in NegativeCountOutcomes \cup { "none" } :
          SetTexMatrixChangedB(Value, cull_all, oversized, negative_count)
          /\ UNCHANGED notXF
    \/ AddVertices /\ UNCHANGED notXF

\* The XF loads the synchronisation of the flags is explored with: inside the
\* position matrices, across the start of the post-transform matrices (which leaves
\* a range whose row count is negative) and inside the lights.
SyncRanges == { << 3, 5 >>, << 1279, 1281 >>, << 1552, 1556 >> }

NextXFSync ==
    \/ \E range \in SyncRanges :
          InvalidateXFRange(range[1], range[2]) /\ UNCHANGED notXF
    \/ \E oversized \in BOOLEAN, negative_count \in NegativeCountOutcomes \cup { "none" } :
          SetConstants(oversized, negative_count) /\ UNCHANGED notXF
    \/ \E Value \in MatrixIndexValuesA, cull_all, oversized \in BOOLEAN,
             negative_count \in NegativeCountOutcomes \cup { "none" } :
          SetTexMatrixChangedA(Value, cull_all, oversized, negative_count)
          /\ UNCHANGED notXF
    \/ \E Value \in MatrixIndexValuesB, cull_all, oversized \in BOOLEAN,
             negative_count \in NegativeCountOutcomes \cup { "none" } :
          SetTexMatrixChangedB(Value, cull_all, oversized, negative_count)
          /\ UNCHANGED notXF
    \/ AddVertices /\ UNCHANGED notXF
    \/ \E mode \in PointerWrapModes : DoState(mode) /\ UNCHANGED notXF
    \/ SetViewportChanged /\ UNCHANGED notXF
    \/ ResetView /\ UNCHANGED notXF
    \/ TranslateView /\ UNCHANGED notXF
    \/ RotateView /\ UNCHANGED notXF
    \/ \E value \in PhongSettings : SetPhongConfig(value) /\ UNCHANGED notXF


-----------------------------------------------------------------------------
(* TextureEncoder::EncodeTextureToRam, one statement at a time, against a          *)
(* StateTracker, a command buffer manager and a GPU that runs submitted command    *)
(* buffers in order.  Texture contents are [format, texels]: the encoding in       *)
(* format of the source texels.                                                    *)

\* The head of the list CompileShaders walks, and a format that is not in it.
texture_encoding_shader_formats == << "GX_TF_I4", "GX_TF_RGBA8" >>
Formats == { "GX_TF_I4", "GX_TF_RGBA8", "GX_TF_CMPR" }

Texels == { 1, 2 }
NoTexels == [ format |-> "none", texels |-> 0 ]

Command(op) == [ op |-> op, format |-> "none" ]

\* TextureEncoder::CompileShaders when the first ok_count compilations succeed:
\* the modules and the return value.
CompileShaders(ok_count) ==
    [ shaders |-> [ f \in Formats |->
                      IF \E i \in 1 .. ok_count : texture_encoding_shader_formats[i] = f
                      THEN CHOOSE i \in 1 .. ok_count : texture_encoding_shader_formats[i] = f
                      ELSE VK_NULL_HANDLE ],
      result |-> ok_count = Len(texture_encoding_shader_formats) ]

\* The GPU runs one command: the encoding draw renders the source into the
\* encoding texture, the copy moves the encoding texture to the staging texture.
RunCommand(gpu, cmd) ==
    CASE cmd.op = "EncodeDraw" ->
             [ gpu EXCEPT !.encoding = [ format |-> cmd.format, texels |-> gpu.src ] ]
      [] cmd.op = "CopyFromImage" -> [ gpu EXCEPT !.download = gpu.encoding ]
      [] OTHER -> gpu

RECURSIVE RunCommands(_, _)
RunCommands(gpu, cmds) ==
    IF cmds = << >> THEN gpu ELSE RunCommands(RunCommand(gpu, Head(cmds)), Tail(cmds))

RECURSIVE RunBuffers(_, _)
RunBuffers(gpu, buffers) ==
    IF buffers = << >> THEN gpu
    ELSE RunBuffers(RunCommands(gpu, Head(buffers)), Tail(buffers))

GpuState == [ src |-> src_texels, encoding |-> m_encoding_texture,
              download |-> m_download_texture ]

\* A statement order that reads the texels right after recording the copy.
NextStatement_ReadBeforeExecute(statement) ==
    CASE statement = "StateTracker::EndRenderPass" -> "draw"
      [] statement = "draw" -> "CopyFromImage"
      [] statement = "CopyFromImage" -> "ReadTexels"
      [] statement = "ReadTexels" -> "ExecuteCommandBuffer"
      [] statement = "ExecuteCommandBuffer" -> "InvalidateDescriptorSets"
      [] statement = "InvalidateDescriptorSets" -> "SetPendingRebind"
      [] statement = "SetPendingRebind" -> "idle"

\* The order of the statements of EncodeTextureToRam after the shader test; "idle"
\* is the return.
NextStatement(statement) ==
    CASE statement = "StateTracker::EndRenderPass" -> "draw"
      [] statement = "draw" -> "CopyFromImage"
      [] statement = "CopyFromImage" -> "ExecuteCommandBuffer"
      [] statement = "ExecuteCommandBuffer" -> "InvalidateDescriptorSets"
      [] statement = "InvalidateDescriptorSets" -> "SetPendingRebind"
      [] statement = "SetPendingRebind" -> "ReadTexels"
      [] statement = "ReadTexels" -> "idle"

\* What every statement of the call does to the position, the log and enc_last.
Advance(statement) ==
    /\ enc_pc = statement
    /\ enc_pc' = NextStatement(statement)
    /\ enc_log' = Append(enc_log, statement)
    /\ enc_last' = IF NextStatement(statement) = "idle"
                   THEN [ op |-> "EncodeTextureToRam", format |-> enc_args.format,
                          texels |-> enc_args.texels, in_pass |-> enc_args.in_pass,
                          result |-> "done" ]
                   ELSE enc_last
    /\ UNCHANGED << enc_args, m_texture_encoding_shaders, src_texels >>

\* TextureEncoder::Initialize: CompileShaders, then the render pass, the encoding
\* texture and the download texture (rest_ok: those were created).
TextureEncoderInitialize(ok_count, rest_ok) ==
    /\ enc_pc = "boot"
    /\ LET compiled == CompileShaders(ok_count)
       IN  /\ m_texture_encoding_shaders' = compiled.shaders
           /\ enc_pc' = IF compiled.result /\ rest_ok THEN "idle" ELSE "failed"
           /\ enc_last' = [ op |-> "Initialize", result |-> compiled.result /\ rest_ok ]
    /\ UNCHANGED << enc_args, enc_log, src_texels, m_encoding_texture, m_download_texture,
                    dest_mem, cmd_buffer, gpu_pending, m_current_render_pass,
                    descriptor_sets_valid, pending_rebind >>

\* An EncodeTextureToRam that ends the render pass before it tests for the shader.
EncodeTextureToRam_EndPassFirst(format) ==
    /\ enc_pc = "idle"
    /\ enc_log' = << >>
    /\ IF m_texture_encoding_shaders[format] = VK_NULL_HANDLE
       THEN /\ enc_last' = [ op |-> "EncodeTextureToRam", format |-> format,
                             texels |-> src_texels, in_pass |-> m_current_render_pass,
                             result |-> "missing shader" ]
            /\ cmd_buffer' = IF m_current_render_pass
                             THEN Append(cmd_buffer, Command("EndRenderPass")) ELSE cmd_buffer
            /\ m_current_render_pass' = FALSE
            /\ UNCHANGED << enc_pc, enc_args >>
       ELSE /\ enc_last' = [ op |-> "EncodeTextureToRam", format |-> format,
                             texels |-> src_texels, in_pass |-> m_current_render_pass,
                             result |-> "running" ]
            /\ enc_pc' = "StateTracker::EndRenderPass"
            /\ enc_args' = [ format |-> format, texels |-> src_texels,
                             in_pass |-> m_current_render_pass ]
            /\ UNCHANGED << cmd_buffer, m_current_render_pass >>
    /\ UNCHANGED << m_texture_encoding_shaders, src_texels, m_encoding_texture,
                    m_download_texture, dest_mem, gpu_pending,
                    descriptor_sets_valid, pending_rebind >>

\* EncodeTextureToRam is called: the test for the encoding shader.
EncodeTextureToRam(format) ==
    /\ enc_pc = "idle"
    /\ enc_log' = << >>
    /\ IF m_texture_encoding_shaders[format] = VK_NULL_HANDLE
       THEN /\ enc_last' = [ op |-> "EncodeTextureToRam", format |-> format,
                             texels |-> src_texels, in_pass |-> m_current_render_pass,
                             result |-> "missing shader" ]
            /\ UNCHANGED << enc_pc, enc_args >>
       ELSE /\ enc_last' = [ op |-> "EncodeTextureToRam", format |-> format,
                             texels |-> src_texels, in_pass |-> m_current_render_pass,
                             result |-> "running" ]
            /\ enc_pc' = "StateTracker::EndRenderPass"
            /\ enc_args' = [ format |-> format, texels |-> src_texels,
                             in_pass |-> m_current_render_pass ]
    /\ UNCHANGED << m_texture_encoding_shaders, src_texels, m_encoding_texture,
                    m_download_texture, dest_mem, cmd_buffer, gpu_pending,
                    m_current_render_pass, descriptor_sets_valid, pending_rebind >>

\* StateTracker::GetInstance()->EndRenderPass(): ends the pass if one is open.
Encode_EndRenderPass ==
    /\ Advance("StateTracker::EndRenderPass")
    /\ cmd_buffer' = IF m_current_render_pass
                     THEN Append(cmd_buffer, Command("EndRenderPass")) ELSE cmd_buffer
    /\ m_current_render_pass' = FALSE
    /\ UNCHANGED << m_encoding_texture, m_download_texture, dest_mem, gpu_pending,
                    descriptor_sets_valid, pending_rebind >>

\* The UtilityShaderDraw: BeginRenderPass, DrawWithoutVertexBuffer, EndRenderPass.
Encode_Draw ==
    /\ Advance("draw")
    /\ cmd_buffer' = cmd_buffer \o << Command("BeginRenderPass"),
                                      [ op |-> "EncodeDraw", format |-> enc_args.format ],
                                      Command("EndRenderPass") >>
    /\ UNCHANGED << m_encoding_texture, m_download_texture, dest_mem, gpu_pending,
                    m_current_render_pass, descriptor_sets_valid, pending_rebind >>

\* m_encoding_texture->OverrideImageLayout and m_download_texture->CopyFromImage.
Encode_CopyFromImage ==
    /\ Advance("CopyFromImage")
    /\ cmd_buffer' = Append(cmd_buffer, Command("CopyFromImage"))
    /\ UNCHANGED << m_encoding_texture, m_download_texture, dest_mem, gpu_pending,
                    m_current_render_pass, descriptor_sets_valid, pending_rebind >>

\* The position of a call that is inside ExecuteCommandBuffer, blocked on the fence.
WaitingForGpu == "ExecuteCommandBuffer: wait"

\* g_command_buffer_mgr->ExecuteCommandBuffer(false, true), its first half: the
\* current command buffer is submitted behind the ones already pending.
Encode_ExecuteCommandBuffer ==
    /\ enc_pc = "ExecuteCommandBuffer"
    /\ enc_pc' = WaitingForGpu
    /\ gpu_pending' = Append(gpu_pending, cmd_buffer)
    /\ cmd_buffer' = << >>
    /\ UNCHANGED << enc_args, enc_log, enc_last, m_texture_encoding_shaders, src_texels,
                    m_encoding_texture, m_download_texture, dest_mem,
                    m_current_render_pass, descriptor_sets_valid, pending_rebind >>

\* ExecuteCommandBuffer(false, true), its second half: the call blocks until the
\* GPU has completed the submitted buffer, and with it every buffer submitted
\* before, then returns.
Encode_WaitForCompletion ==
    /\ enc_pc = WaitingForGpu
    /\ gpu_pending = << >>
    /\ enc_pc' = NextStatement("ExecuteCommandBuffer")
    /\ enc_log' = Append(enc_log, "ExecuteCommandBuffer")
    /\ UNCHANGED << enc_args, enc_last, m_texture_encoding_shaders, src_texels,
                    m_encoding_texture, m_download_texture, dest_mem, cmd_buffer,
                    gpu_pending, m_current_render_pass, descriptor_sets_valid,
                    pending_rebind >>

\* StateTracker::GetInstance()->InvalidateDescriptorSets().
Encode_InvalidateDescriptorSets ==
    /\ Advance("InvalidateDescriptorSets")
    /\ descriptor_sets_valid' = FALSE
    /\ UNCHANGED << m_encoding_texture, m_download_texture, dest_mem, cmd_buffer,
                    gpu_pending, m_current_render_pass, pending_rebind >>

\* StateTracker::GetInstance()->SetPendingRebind().
Encode_SetPendingRebind ==
    /\ Advance("SetPendingRebind")
    /\ pending_rebind' = TRUE
    /\ UNCHANGED << m_encoding_texture, m_download_texture, dest_mem, cmd_buffer,
                    gpu_pending, m_current_render_pass, descriptor_sets_valid >>

\* m_download_texture->ReadTexels(..., dest_ptr, memory_stride): the staging
\* texture, as it is now, is copied to dest_ptr.
Encode_ReadTexels ==
    /\ Advance("ReadTexels")
    /\ dest_mem' = m_download_texture
    /\ UNCHANGED << m_encoding_texture, m_download_texture, cmd_buffer, gpu_pending,
                    m_current_render_pass, descriptor_sets_valid, pending_rebind >>

\* The renderer draws: StateTracker::Bind refreshes the descriptor sets, clears the
\* dirty flags and begins the render pass if none is open; the draw is recorded.
RendererDraw ==
    /\ enc_pc = "idle"
    /\ Len(cmd_buffer) + (IF m_current_render_pass THEN 1 ELSE 2) <= MaxCommands
    /\ cmd_buffer' = cmd_buffer
                       \o (IF m_current_render_pass THEN << >>
                           ELSE << Command("BeginRenderPass") >>)
                       \o << Command("Draw") >>
    /\ m_current_render_pass' = TRUE
    /\ descriptor_sets_valid' = TRUE
    /\ pending_rebind' = FALSE
    /\ enc_last' = [ op |-> "Draw" ]
    /\ UNCHANGED << enc_pc, enc_args, enc_log, m_texture_encoding_shaders, src_texels,
                    m_encoding_texture, m_download_texture, dest_mem, gpu_pending >>

\* The renderer submits the current command buffer without waiting for it.
RendererSubmit ==
    /\ enc_pc = "idle"
    /\ Len(gpu_pending) < MaxPending
    /\ gpu_pending' = Append(gpu_pending,
                             IF m_current_render_pass
                             THEN Append(cmd_buffer, Command("EndRenderPass"))
                             ELSE cmd_buffer)
    /\ cmd_buffer' = << >>
    /\ m_current_render_pass' = FALSE
    /\ descriptor_sets_valid' = FALSE
    /\ pending_rebind' = TRUE
    /\ enc_last' = [ op |-> "Submit" ]
    /\ UNCHANGED << enc_pc, enc_args, enc_log, m_texture_encoding_shaders, src_texels,
                    m_encoding_texture, m_download_texture, dest_mem >>

\* The image behind src_texture gets new contents.
RenderToSource(texels) ==
    /\ enc_pc = "idle"
    /\ texels # src_texels
    /\ src_texels' = texels
    /\ enc_last' = [ op |-> "RenderToSource" ]
    /\ UNCHANGED << enc_pc, enc_args, enc_log, m_texture_encoding_shaders,
                    m_encoding_texture, m_download_texture, dest_mem, cmd_buffer,
                    gpu_pending, m_current_render_pass, descriptor_sets_valid,
                    pending_rebind >>

\* The GPU completes the oldest submitted command buffer.
GpuComplete ==
    /\ gpu_pending # << >>
    /\ LET gpu == RunCommands(GpuState, Head(gpu_pending))
       IN  /\ m_encoding_texture' = gpu.encoding
           /\ m_download_texture' = gpu.download
    /\ gpu_pending' = Tail(gpu_pending)
    /\ UNCHANGED << enc_pc, enc_args, enc_log, enc_last, m_texture_encoding_shaders,
                    src_texels, dest_mem, cmd_buffer, m_current_render_pass,
                    descriptor_sets_valid, pending_rebind >>

InitEncoder ==
    /\ enc_pc = "boot"
    /\ enc_args = [ format |-> "none", texels |-> 0, in_pass |-> FALSE ]
    /\ enc_log = << >>
    /\ enc_last = [ op |-> "none" ]
    /\ m_texture_encoding_shaders = [ f \in Formats |-> VK_NULL_HANDLE ]
    /\ src_texels = 1
    /\ m_encoding_texture = NoTexels
    /\ m_download_texture = NoTexels
    /\ dest_mem = NoTexels
    /\ cmd_buffer = << >>
    /\ gpu_pending = << >>
    /\ m_current_render_pass = FALSE
    /\ descriptor_sets_valid = FALSE
    /\ pending_rebind = TRUE

NextEncoder ==
    \/ \E ok_count \in 0 .. Len(texture_encoding_shader_formats), rest_ok \in BOOLEAN :
          TextureEncoderInitialize(ok_count, rest_ok) /\ UNCHANGED notEncoder
    \/ \E format \in Formats : EncodeTextureToRam(format) /\ UNCHANGED notEncoder
    \/ Encode_EndRenderPass /\ UNCHANGED notEncoder
    \/ Encode_Draw /\ UNCHANGED notEncoder
    \/ Encode_CopyFromImage /\ UNCHANGED notEncoder
    \/ Encode_ExecuteCommandBuffer /\ UNCHANGED notEncoder
    \/ Encode_WaitForCompletion /\ UNCHANGED notEncoder
    \/ Encode_InvalidateDescriptorSets /\ UNCHANGED notEncoder
    \/ Encode_SetPendingRebind /\ UNCHANGED notEncoder
    \/ Encode_ReadTexels /\ UNCHANGED notEncoder
    \/ RendererDraw /\ UNCHANGED notEncoder
    \/ RendererSubmit /\ UNCHANGED notEncoder
    \/ \E texels \in Texels : RenderToSource(texels) /\ UNCHANGED notEncoder
    \/ GpuComplete /\ UNCHANGED notEncoder


-----------------------------------------------------------------------------
(* TCacheEntryBase: the two-way references between texture cache entries.          *)

Entries == 1 .. NumEntries

\* A CreateReference that records the reference on this entry only.
CreateReference_OneWay(this, other_entry) ==
    /\ this # other_entry
    /\ references' = [ references EXCEPT ![this] = @ \cup { other_entry } ]
    /\ tex_last' = [ op |-> "CreateReference", entry |-> this, other |-> other_entry,
                     had |-> references[this] ]

\* this->CreateReference(other_entry), for two distinct entries.
CreateReference(this, other_entry) ==
    /\ this # other_entry
    /\ references' = [ references EXCEPT ![this] = @ \cup { other_entry },
                                         ![other_entry] = @ \cup { this } ]
    /\ tex_last' = [ op |-> "CreateReference", entry |-> this, other |-> other_entry,
                     had |-> references[this] ]

\* this->DestroyAllReferences(): this is erased from every entry it references,
\* then its own set is cleared.
DestroyAllReferences(this) ==
    /\ references' = [ e \in Entries |->
                         IF e = this THEN {}
                         ELSE IF e \in references[this] THEN references[e] \ { this }
                         ELSE references[e] ]
    /\ tex_last' = [ op |-> "DestroyAllReferences", entry |-> this, other |-> this,
                     had |-> references[this] ]

InitTextures ==
    /\ references = [ e \in Entries |-> {} ]
    /\ tex_last = [ op |-> "none", entry |-> 1, other |-> 1, had |-> {} ]

NextTextures ==
    \/ \E this, other_entry \in Entries :
          CreateReference(this, other_entry) /\ UNCHANGED notTextures
    \/ \E this \in Entries : DestroyAllReferences(this) /\ UNCHANGED notTextures

-----------------------------------------------------------------------------
(* ObjectCache::Initialize and ObjectCache::~ObjectCache as a whole.  The steps    *)
(* whose code only creates Vulkan objects are their results: ok gives, for each    *)
(* step that can fail, whether it succeeds.                                        *)

Step(name, ok) == [ step |-> name, ok |-> ok ]

\* The steps of Initialize that can return false, in the order they are called.
FallibleSteps == << "descriptor_set_layouts", "pipeline_layouts", "pipeline_cache",
                    "static_samplers", "shared_shaders" >>

\* An Initialize that goes on when CreateStaticSamplers returned false.
InitializeRun_IgnoreSamplers(ok) ==
    LET s1 == << Step("CreateDescriptorSetLayouts", ok.descriptor_set_layouts) >>
        s2 == Append(s1, Step("CreatePipelineLayouts", ok.pipeline_layouts))
        s3 == Append(s2, Step("LoadShaderCaches", TRUE))
        s4 == Append(s3, Step("CreatePipelineCache", ok.pipeline_cache))
        s5 == Append(s4, Step("CreateUtilityShaderVertexFormat", TRUE))
        s6 == Append(s5, Step("CreateStaticSamplers", ok.static_samplers))
        s7 == Append(s6, Step("CompileSharedShaders", ok.shared_shaders))
        s9 == s7 \o << Step("StreamBuffer::Create vertex", ok.vertex_buffer),
                       Step("StreamBuffer::Create uniform", ok.uniform_buffer) >>
    IN  IF ~ok.descriptor_set_layouts THEN [ log |-> s1, result |-> FALSE ]
        ELSE IF ~ok.pipeline_layouts THEN [ log |-> s2, result |-> FALSE ]
        ELSE IF ~ok.pipeline_cache THEN [ log |-> s4, result |-> FALSE ]
        ELSE IF ~ok.shared_shaders THEN [ log |-> s7, result |-> FALSE ]
        ELSE IF ~ok.vertex_buffer \/ ~ok.uniform_buffer THEN [ log |-> s9, result |-> FALSE ]
        ELSE [ log |-> s9, result |-> TRUE ]

\* ObjectCache::Initialize: the calls it makes, in order, with what each returned,
\* and its result.  LoadShaderCaches returns nothing and
\* CreateUtilityShaderVertexFormat always returns true.
InitializeRun(ok) ==
    LET s1 == << Step("CreateDescriptorSetLayouts", ok.descriptor_set_layouts) >>
        s2 == Append(s1, Step("CreatePipelineLayouts", ok.pipeline_layouts))
        s3 == Append(s2, Step("LoadShaderCaches", TRUE))
        s4 == Append(s3, Step("CreatePipelineCache", ok.pipeline_cache))
        s5 == Append(s4, Step("CreateUtilityShaderVertexFormat", TRUE))
        s6 == Append(s5, Step("CreateStaticSamplers", ok.static_samplers))
        s7 == Append(s6, Step("CompileSharedShaders", ok.shared_shaders))
        s9 == s7 \o << Step("StreamBuffer::Create vertex", ok.vertex_buffer),
                       Step("StreamBuffer::Create uniform", ok.uniform_buffer) >>
    IN  IF ~ok.descriptor_set_layouts THEN [ log |-> s1, result |-> FALSE ]
        ELSE IF ~ok.pipeline_layouts THEN [ log |-> s2, result |-> FALSE ]
        ELSE IF ~ok.pipeline_cache THEN [ log |-> s4, result |-> FALSE ]
        ELSE IF ~ok.static_samplers THEN [ log |-> s6, result |-> FALSE ]
        ELSE IF ~ok.shared_shaders THEN [ log |-> s7, result |-> FALSE ]
        ELSE IF ~ok.vertex_buffer \/ ~ok.uniform_buffer THEN [ log |-> s9, result |-> FALSE ]
        ELSE [ log |-> s9, result |-> TRUE ]

Ran(log, name) == \E i \in DOMAIN log : log[i].step = name

\* ObjectCache::Initialize.  oks, bCompileShaderOnStartup, profile and outcomes are
\* the inputs of LoadShaderCaches, res1 and res2 those of CreatePipelineCache(true);
\* the inputs of a step that is not reached are fixed.
Initialize(ok, oks, bCompileShaderOnStartup, profile, outcomes, res1, res2) ==
    /\ oc_state = "constructed"
    /\ pc_shaders = "boot"
    /\ pc_cache = "boot"
    /\ ok.pipeline_cache = (res1 \/ res2)
    /\ LET run == InitializeRun(ok)
       IN  /\ IF Ran(run.log, "LoadShaderCaches")
              THEN LoadShaderCaches(oks, bCompileShaderOnStartup, profile, outcomes)
              ELSE /\ \A i \in DOMAIN oks : oks[i]
                   /\ ~bCompileShaderOnStartup
                   /\ UNCHANGED shaderVars
           /\ IF Ran(run.log, "CreatePipelineCache")
              THEN InitializePipelineCache(res1, res2)
              ELSE /\ res1
                   /\ UNCHANGED pipeVars
           /\ m_utility_shader_vertex_buffer' =
                  (Ran(run.log, "StreamBuffer::Create vertex") /\ ok.vertex_buffer)
           /\ m_utility_shader_uniform_buffer' =
                  (Ran(run.log, "StreamBuffer::Create uniform") /\ ok.uniform_buffer)
           /\ init_log' = run.log
           /\ init_ret' = run.result
           /\ oc_state' = IF run.result THEN "initialized" ELSE "failed"

\* What DestroyShaderCache's cache.shader_map->ForEach does when shader_map is null
\* (LoadShaderCaches never ran on this object): the behaviour is undefined; the
\* process is killed by the access, or the call comes back.
NullDerefOutcomes == { "crash", "return" }

\* ObjectCache::~ObjectCache: DestroyPipelineCache, then DestroyShaderCaches, then
\* the members' destructors release the stream buffers.  null_deref is the outcome
\* of the null shader_map access ("none" when the maps exist).  After a crash the
\* process is gone; otherwise the next session constructs a new ObjectCache.
ObjectCacheDestructor(null_deref) ==
    /\ oc_state # "crashed"
    /\ oc_state # "constructed" \/ pc_cache = "running" \/ pc_shaders = "running"
    /\ null_deref = "none" <=> pc_shaders = "running"
    /\ DestroyPipelineCache
    /\ IF pc_shaders = "running" THEN DestroyShaderCaches ELSE UNCHANGED shaderVars
    /\ IF null_deref = "crash"
       THEN /\ oc_state' = "crashed"
            /\ UNCHANGED << init_log, init_ret, m_utility_shader_vertex_buffer,
                            m_utility_shader_uniform_buffer >>
       ELSE /\ m_utility_shader_vertex_buffer' = FALSE
            /\ m_utility_shader_uniform_buffer' = FALSE
            /\ oc_state' = "constructed"
            /\ init_log' = << >>
            /\ init_ret' = FALSE

\* The results of the steps: a step that is not reached has no result (TRUE here).
StepResults ==
    { ok \in [ { FallibleSteps[i] : i \in DOMAIN FallibleSteps }
                   \cup { "vertex_buffer", "uniform_buffer" } -> BOOLEAN ] :
        /\ \A i, j \in DOMAIN FallibleSteps :
              (i < j /\ ~ok[FallibleSteps[i]]) => ok[FallibleSteps[j]]
        /\ (\E i \in DOMAIN FallibleSteps : ~ok[FallibleSteps[i]]) =>
              (ok.vertex_buffer /\ ok.uniform_buffer) }

\* Every step of Initialize succeeding.
AllStepsOk == [ s \in { FallibleSteps[i] : i \in DOMAIN FallibleSteps }
                         \cup { "vertex_buffer", "uniform_buffer" } |-> TRUE ]

\* The usage profiles Initialize is explored with: at most one UID.
StartupProfiles == { p \in Profiles : Len(p) <= 1 }

InitObjectCache ==
    /\ oc_state = "constructed"
    /\ init_log = << >>
    /\ init_ret = FALSE
    /\ m_utility_shader_vertex_buffer = FALSE
    /\ m_utility_shader_uniform_buffer = FALSE

\* The pipeline cache over sessions: Initialize with every other step succeeding
\* and no start-up compilation.
NextPipeline ==
    \/ \E res1, res2 \in BOOLEAN :
          /\ res1 => res2
          /\ Initialize([ AllStepsOk EXCEPT !.pipeline_cache = res1 \/ res2 ],
                        << >>, FALSE, << >>, << >>, res1, res2)
          /\ UNCHANGED notObjectCache
    \/ \E info \in PipelineInfos, created \in BOOLEAN :
          GetPipeline(info, created) /\ UNCHANGED notPipeline
    \/ \E res1, res2 \in BOOLEAN :
          (res1 => res2) /\ ClearPipelineCache(res1, res2) /\ UNCHANGED notPipeline
    \/ \E size_ok, data_ok \in BOOLEAN, data \in Blobs :
          SavePipelineCache(size_ok, data_ok, data) /\ UNCHANGED notPipeline
    \/ \E null_deref \in NullDerefOutcomes \cup { "none" } :
          ObjectCacheDestructor(null_deref) /\ UNCHANGED notObjectCache

\* The shader caches over sessions.
NextShaders ==
    \/ \E oks \in [ 1 .. Len(StoredRecords) -> BOOLEAN ], startup \in BOOLEAN :
          \E profile \in IF startup THEN Profiles ELSE { << >> } :
              \E outcomes \in [ { profile[i] : i \in DOMAIN profile } -> CompileOutcomes ] :
                  LoadShaderCaches(oks, startup, profile, outcomes) /\ UNCHANGED notShaders
    \/ \E uid \in Uids, outcome \in CompileOutcomes :
          GetVertexShaderForUid(uid, outcome) /\ UNCHANGED notShaders
    \/ \E uid \in Uids, outcome \in CompileOutcomes :
          GetGeometryShaderForUid(uid, outcome) /\ UNCHANGED notShaders
    \/ \E uid \in Uids, outcome \in CompileOutcomes :
          GetPixelShaderForUid(uid, outcome) /\ UNCHANGED notShaders
    \/ \E null_deref \in NullDerefOutcomes \cup { "none" } :
          ObjectCacheDestructor(null_deref) /\ UNCHANGED notObjectCache

NextObjectCache ==
    \/ \E ok \in StepResults, res1, res2 \in BOOLEAN :
          /\ oc_state = "constructed"
          /\ res1 => res2
          /\ ok.pipeline_cache = (res1 \/ res2)
          /\ \E oks \in [ 1 .. Len(StoredRecords) -> BOOLEAN ], startup \in BOOLEAN :
                \E profile \in IF startup THEN StartupProfiles ELSE { << >> } :
                    \E outcomes \in [ { profile[i] : i \in DOMAIN profile } -> CompileOutcomes ] :
                        /\ Initialize(ok, oks, startup, profile, outcomes, res1, res2)
                        /\ UNCHANGED notObjectCache
    \/ \E null_deref \in NullDerefOutcomes \cup { "none" } :
          ObjectCacheDestructor(null_deref) /\ UNCHANGED notObjectCache

-----------------------------------------------------------------------------
(* Specifications *)

Init ==
    InitPipeline /\ InitShaders /\ InitXF /\ InitEncoder /\ InitTextures /\ InitObjectCache

\* Only the shader cache operations depend on the cache followed: the other
\* subsystems are explored with the vertex shader cache.
InitVertexStage == Init /\ stage = "vs"

SpecPipeline == InitVertexStage /\ [][NextPipeline]_vars

SpecShaders == Init /\ [][NextShaders]_vars

SpecXF == InitVertexStage /\ [][NextXF]_vars

SpecXFSync == InitVertexStage /\ [][NextXFSync]_vars

SpecEncoder == InitVertexStage /\ [][NextEncoder]_vars

SpecTextures == InitVertexStage /\ [][NextTextures]_vars

SpecObjectCache == InitVertexStage /\ [][NextObjectCache]_vars

Next ==
    \/ NextPipeline \/ NextShaders \/ NextXF \/ NextXFSync
    \/ NextEncoder \/ NextTextures \/ NextObjectCache

Spec == Init /\ [][Next]_vars


-----------------------------------------------------------------------------
(* Claims about the pipeline objects and the pipeline cache file *)

\* C1: between two emptyings of the map (ClearPipelineCache, destruction),
\* vkCreateGraphicsPipelines is invoked at most once per PipelineInfo value, the map
\* holds for each requested value the handle that invocation produced, every
\* GetPipeline returns that handle, and a failed creation stays cached as
\* VK_NULL_HANDLE.
C1_PipelineCreatedOnce ==
    /\ \A info \in PipelineInfos : vk_create_calls[info] <= 1
    /\ \A info \in DOMAIN m_pipeline_objects :
          vk_create_calls[info] = 1 /\ m_pipeline_objects[info] = vk_created[info]
    /\ last_call.op = "GetPipeline" =>
          /\ vk_create_calls[last_call.info] = 1
          /\ last_call.ret = vk_created[last_call.info]

\* C1's case: a GetPipeline answered from the map with the VK_NULL_HANDLE a failed
\* creation left there.
C1_Witness ==
    /\ last_call.op = "GetPipeline"
    /\ last_call.hit
    /\ last_call.ret = VK_NULL_HANDLE
    /\ vk_create_calls[last_call.info] = 1

C8_State ==
    /\ (last_call.op = "SavePipelineCache" /\ last_call.ret) =>
          pipeline_file = FileOf(<< [ key |-> 1, value |-> last_saved ] >>)
    /\ (last_call.op = "Initialize" /\ last_saved # NoData) =>
          vk_cache_attempts[1].initial = last_saved

C8_Step ==
    (last_call'.op = "SavePipelineCache" /\ ~last_call'.ret) => pipeline_file' = pipeline_file

\* C8: after a SavePipelineCache that got the data from the driver, the file holds
\* exactly one record, key 1, whose value is that data, whatever the file held before;
\* the first vkCreatePipelineCache call of a following CreatePipelineCache(true) is
\* given exactly these bytes; a SavePipelineCache whose vkGetPipelineCacheData fails
\* leaves the file as it was.
C8_SaveRoundTrip == []C8_State /\ [][C8_Step]_vars

\* C8's case: Initialize has read back the two bytes an earlier SavePipelineCache
\* wrote over an older file.
C8_Witness ==
    /\ last_call.op = "Initialize"
    /\ last_saved = << 171, 205 >>
    /\ vk_cache_attempts[1].initial = << 171, 205 >>

C9_State ==
    /\ last_call.op = "ClearPipelineCache" =>
          /\ m_pipeline_objects = EmptyMap
          /\ \A h \in PipelineHandles : h < vk_next_pipeline => vk_destroy_count[h] = 1
          /\ \A i \in 1 .. Len(vk_cache_attempts) : vk_cache_attempts[i].initial = << >>
    /\ \A h \in PipelineHandles : vk_destroy_count[h] <= 1
    /\ (last_call.op = "GetPipeline" /\ last_call.ret # VK_NULL_HANDLE) =>
          vk_destroy_count[last_call.ret] = 0

C9_Step ==
    (last_call.op = "ClearPipelineCache" /\ last_call'.op = "GetPipeline") =>
        /\ ~last_call'.hit
        /\ vk_create_calls'[last_call'.info] = 1

\* C9: after ClearPipelineCache the map is empty, every pipeline handle the driver
\* handed out has been destroyed exactly once, and every vkCreatePipelineCache call
\* it made was given no initial data; no pipeline is destroyed twice, GetPipeline
\* never returns a destroyed handle, and a GetPipeline right after
\* ClearPipelineCache invokes vkCreateGraphicsPipelines.
C9_ClearStartsFresh == []C9_State /\ [][C9_Step]_vars

\* C9's case: ClearPipelineCache has destroyed two cached pipelines, and the data of
\* an earlier save is on disk.
C9_Witness ==
    /\ last_call.op = "ClearPipelineCache"
    /\ vk_next_pipeline = 3
    /\ vk_destroy_count[1] = 1 /\ vk_destroy_count[2] = 1
    /\ last_saved = << 171 >>
    /\ m_pipeline_cache # VK_NULL_HANDLE

GetShaderOps == { "GetVertexShaderForUid", "GetGeometryShaderForUid", "GetPixelShaderForUid" }

\* Claim C2: Get{Vertex,Geometry,Pixel}ShaderForUid returns the module stored for
\* the UID and compiles a UID at most once in a session: the first request
\* compiles and stores the result, a request for a UID whose entry is already
\* initialized returns the stored module without compiling and without touching
\* the entry or the file, also when the stored module is VK_NULL_HANDLE because
\* the compilation failed.
C2_State ==
    /\ \A u \in Uids :
          /\ sh_compiles[u] <= 1
          /\ sh_compiles[u] = 1 =>
                u \in DOMAIN shader_map /\ shader_map[u].initialized /\ shader_map[u].compiled
    /\ last_shader_call.op \in GetShaderOps =>
          last_shader_call.ret = shader_map[last_shader_call.uid].module

C2_Step ==
    (pc_shaders = "running" /\ last_shader_call'.op \in GetShaderOps) =>
        LET u == last_shader_call'.uid
        IN  IF u \in DOMAIN shader_map /\ shader_map[u].initialized
            THEN /\ ~last_shader_call'.compiled
                 /\ last_shader_call'.ret = shader_map[u].module
                 /\ UNCHANGED << shader_map, disk_cache, sh_compiles, sh_outcome >>
            ELSE /\ last_shader_call'.compiled
                 /\ sh_compiles' = [ sh_compiles EXCEPT ![u] = 1 ]
                 /\ shader_map'[u].initialized

C2_ShaderCompiledOnce == []C2_State /\ [][C2_Step]_vars

\* A request answered from the entry a failed compilation left behind.
C2_Witness ==
    /\ last_shader_call.op \in GetShaderOps
    /\ ~last_shader_call.compiled
    /\ last_shader_call.ret = VK_NULL_HANDLE
    /\ sh_compiles[last_shader_call.uid] = 1
    /\ sh_outcome[last_shader_call.uid] \in { "compile_failed", "module_failed" }

\* The records added to the file since this session read it.
AppendedRecords == SubSeq(disk_cache.records, Len(disk_at_boot) + 1, Len(disk_cache.records))

AppendCount(u) == Cardinality({ i \in DOMAIN AppendedRecords : AppendedRecords[i].key = u })

\* Claim C3: a shader is appended to its disk cache exactly when it was compiled
\* in this session and its module was created: the file is what the session read
\* followed by one record (UID, SPIR-V) per UID whose compilation produced a
\* module, and nothing for a UID whose compilation or module creation failed or
\* whose entry was loaded from the file.
C3_AppendedIffCompiledAndCreated ==
    pc_shaders = "running" =>
        /\ Len(disk_cache.records) >= Len(disk_at_boot)
        /\ SubSeq(disk_cache.records, 1, Len(disk_at_boot)) = disk_at_boot
        /\ \A u \in Uids :
              AppendCount(u) = IF sh_outcome[u] = "created" THEN 1 ELSE 0
        /\ \A i \in DOMAIN AppendedRecords :
              AppendedRecords[i].value = SpirvOf(AppendedRecords[i].key)
        /\ \A u \in sh_loaded : sh_outcome[u] = "none" /\ AppendCount(u) = 0

\* One UID was compiled and appended, another failed module creation and was not.
C3_Witness ==
    /\ pc_shaders = "running"
    /\ \E u, v \in Uids :
          /\ sh_outcome[u] = "created" /\ AppendCount(u) = 1
          /\ sh_outcome[v] = "module_failed" /\ AppendCount(v) = 0

\* Claim C10: on loading, a record whose module cannot be created leaves the
\* shader map unchanged, so that the UID is compiled when it is first requested;
\* a record whose module is created is inserted initialized and compiled with the
\* module of that record, and no later request compiles it.
C10_State ==
    pc_shaders = "running" =>
        /\ \A u \in sh_loaded :
              /\ u \in DOMAIN shader_map
              /\ shader_map[u].initialized /\ shader_map[u].compiled
              /\ shader_map[u].module \in DOMAIN disk_at_boot
              /\ disk_at_boot[shader_map[u].module].key = u
              /\ sh_compiles[u] = 0
        /\ \A u \in Uids \ sh_loaded :
              u \in DOMAIN shader_map => sh_compiles[u] = 1

C10_Step ==
    (pc_shaders = "running" /\ last_shader_call'.op \in GetShaderOps) =>
        LET u == last_shader_call'.uid
        IN  /\ (u \in sh_load_failed \ sh_loaded /\ sh_compiles[u] = 0) =>
                  last_shader_call'.compiled /\ sh_compiles'[u] = 1
            /\ u \in sh_loaded =>
                  ~last_shader_call'.compiled /\ last_shader_call'.ret = shader_map[u].module

C10_ReadInsertsOnlyCreatedModules == []C10_State /\ [][C10_Step]_vars

\* A UID whose record failed on reading was compiled by a request, while another
\* UID was loaded from the same file.
C10_Witness ==
    /\ last_shader_call.op \in GetShaderOps
    /\ last_shader_call.compiled
    /\ last_shader_call.uid \in sh_load_failed \ sh_loaded
    /\ sh_loaded # {}

\* Claim C4: after any InvalidateXFRange calls, SetConstants copies every
\* invalidated word of the position, normal, post-transform and light regions: in
\* each region the rows copied reach from the first invalidated word to the last.
C4_InvalidatedWordsAreCopied ==
    \A r \in Regions :
        xf_synced[r].invalidated # Clean =>
            /\ xf_synced[r].copied[1] <= xf_synced[r].invalidated[1]
            /\ xf_synced[r].invalidated[2] <= xf_synced[r].copied[2]

\* Whether [start, end) shares a word with one of the selected texture matrices.
OverlapsTexMatrix(start, end, selected) ==
    \E idx \in selected : start < idx * 4 + 12 /\ end > idx * 4

\* Claim C5: an InvalidateXFRange whose range overlaps the 12 words of a texture
\* matrix selected by matrix index register A (B) leaves s_tex_matrices_changed[0]
\* ([1]) set, so that the next SetConstants reloads that group.
C5_OverlapMarksTexMatrices ==
    xf_last.op = "InvalidateXFRange" =>
        /\ OverlapsTexMatrix(xf_last.start, xf_last.end, TexMtxIdxA(matrix_index_a)) =>
              s_tex_matrices_changed[1]
        /\ OverlapsTexMatrix(xf_last.start, xf_last.end, TexMtxIdxB(matrix_index_b)) =>
              s_tex_matrices_changed[2]

EncodeOrder ==
    << "StateTracker::EndRenderPass", "draw", "CopyFromImage", "ExecuteCommandBuffer",
       "InvalidateDescriptorSets", "SetPendingRebind", "ReadTexels" >>

\* Whether a command stream begins and ends render passes properly: draws inside
\* a pass, no pass begun inside another, copies outside.
RECURSIVE RenderPassesValid(_, _)
RenderPassesValid(cmds, in_pass) ==
    IF cmds = << >> THEN TRUE
    ELSE LET op == Head(cmds).op
         IN  CASE op = "BeginRenderPass" -> ~in_pass /\ RenderPassesValid(Tail(cmds), TRUE)
               [] op = "EndRenderPass" -> in_pass /\ RenderPassesValid(Tail(cmds), FALSE)
               [] op = "CopyFromImage" -> ~in_pass /\ RenderPassesValid(Tail(cmds), FALSE)
               [] OTHER -> in_pass /\ RenderPassesValid(Tail(cmds), TRUE)

EncodeRunning == enc_pc \notin { "boot", "failed", "idle" }

\* The statement a running call is at; inside ExecuteCommandBuffer while it waits.
EncodeStatement == IF enc_pc = WaitingForGpu THEN "ExecuteCommandBuffer" ELSE enc_pc

\* Claim C6: a successful EncodeTextureToRam runs its statements in this order:
\* end the StateTracker's render pass, record its own draw inside its own render
\* pass, record the copy to the download texture, execute the command buffer and
\* wait, invalidate the descriptor sets, set the pending rebind, read the texels.
\* The recorded commands never nest render passes; when the call returns dest_ptr
\* holds the encoding of the source, no render pass is open, the descriptor sets
\* are invalid and a full rebind is pending.
C6_State ==
    /\ Len(enc_log) <= Len(EncodeOrder)
    /\ enc_log = SubSeq(EncodeOrder, 1, Len(enc_log))
    /\ EncodeRunning => EncodeStatement = EncodeOrder[Len(enc_log) + 1]
    /\ RenderPassesValid(cmd_buffer, FALSE)
    /\ \A i \in DOMAIN gpu_pending : RenderPassesValid(gpu_pending[i], FALSE)
    /\ (EncodeRunning /\ Len(enc_log) >= 1) => ~m_current_render_pass
    /\ enc_pc = "ExecuteCommandBuffer" =>
          /\ Len(cmd_buffer) >= 4
          /\ SubSeq(cmd_buffer, Len(cmd_buffer) - 3, Len(cmd_buffer)) =
                << Command("BeginRenderPass"),
                   [ op |-> "EncodeDraw", format |-> enc_args.format ],
                   Command("EndRenderPass"), Command("CopyFromImage") >>
    /\ (enc_last.op = "EncodeTextureToRam" /\ enc_last.result = "done") =>
          /\ enc_log = EncodeOrder
          /\ dest_mem = [ format |-> enc_last.format, texels |-> enc_last.texels ]
          /\ cmd_buffer = << >> /\ gpu_pending = << >>
          /\ ~m_current_render_pass /\ ~descriptor_sets_valid /\ pending_rebind

\* ExecuteCommandBuffer returns only when the GPU has completed everything
\* submitted; texels are read only when the command buffer holding the copy has
\* completed: nothing is recorded or pending and the download texture holds this
\* call's encoding.
C6_Step ==
    /\ (enc_pc = WaitingForGpu /\ enc_pc' # enc_pc) =>
          /\ gpu_pending = << >> /\ cmd_buffer = << >>
          /\ m_download_texture = [ format |-> enc_args.format, texels |-> enc_args.texels ]
    /\ (enc_pc = "ReadTexels" /\ enc_log' # enc_log) =>
          /\ cmd_buffer = << >> /\ gpu_pending = << >>
          /\ m_download_texture = [ format |-> enc_args.format, texels |-> enc_args.texels ]
          /\ dest_mem' = m_download_texture
          /\ ~descriptor_sets_valid /\ pending_rebind

C6_EncodeStepsInOrder == []C6_State /\ [][C6_Step]_vars

\* A call made with a render pass open returned the encoding of new source
\* contents.
C6_Witness ==
    /\ enc_last.op = "EncodeTextureToRam"
    /\ enc_last.result = "done"
    /\ enc_last.in_pass
    /\ enc_last.texels = 2
    /\ dest_mem = [ format |-> "GX_TF_RGBA8", texels |-> 2 ]

\* Claim C7: after any CreateReference and DestroyAllReferences calls on distinct
\* entries the references are symmetric (a is in b.references exactly when b is
\* in a.references); after e.DestroyAllReferences() e.references is empty and no
\* other entry's references contains e.
C7_ReferencesSymmetric ==
    /\ \A a, b \in Entries : (a \in references[b]) <=> (b \in references[a])
    /\ tex_last.op = "CreateReference" =>
          /\ tex_last.other \in references[tex_last.entry]
          /\ tex_last.entry \in references[tex_last.other]
    /\ tex_last.op = "DestroyAllReferences" =>
          /\ references[tex_last.entry] = {}
          /\ \A e \in Entries : tex_last.entry \notin references[e]

\* An entry with two references was cleared while the two still reference each
\* other.
C7_Witness ==
    /\ tex_last.op = "DestroyAllReferences"
    /\ \E a, b \in tex_last.had : a # b /\ a \in references[b]

-----------------------------------------------------------------------------
(* C11 *)

\* The steps that ran CreatePipelineCache: Initialize runs CreatePipelineCache(true),
\* ClearPipelineCache runs CreatePipelineCache(false).
CreatePipelineCacheOps == { "Initialize", "ClearPipelineCache" }

C11_Step ==
    last_call'.op \in CreatePipelineCacheOps =>
        LET load_from_disk == last_call'.op = "Initialize"
            one_record == pipeline_file.exists /\ Len(pipeline_file.records) = 1
            calls == vk_cache_attempts'
        IN  /\ Len(calls) \in { 1, 2 }
            /\ calls[1].initial = IF load_from_disk /\ one_record
                                  THEN pipeline_file.records[1].value ELSE << >>
            /\ Len(calls) = 2 <=> ~calls[1].ok
            /\ Len(calls) = 2 => calls[2].initial = << >>
            /\ last_call'.ret = (\E i \in 1 .. Len(calls) : calls[i].ok)
            /\ ~last_call'.ret <=> (Len(calls) = 2 /\ ~calls[1].ok /\ ~calls[2].ok)

\* C11: the first vkCreatePipelineCache call of CreatePipelineCache is given the
\* file's data when load_from_disk is set and the file yielded exactly one record,
\* and no data otherwise; a second call is made, with no initial data, exactly when
\* the first failed; the result is false exactly when both calls failed.
C11_CreateRetriesEmpty == [][C11_Step]_vars

\* C11's case: CreatePipelineCache(true) found one record of two bytes, the driver
\* refused them and accepted the empty retry.
C11_Witness ==
    /\ last_call.op = "Initialize"
    /\ last_call.ret
    /\ Len(vk_cache_attempts) = 2
    /\ vk_cache_attempts[1] = [ initial |-> << 171, 205 >>, ok |-> FALSE ]
    /\ vk_cache_attempts[2] = [ initial |-> << >>, ok |-> TRUE ]

-----------------------------------------------------------------------------
(* C12 *)

\* The order the claim gives; the two StreamBuffer::Create calls are its last step.
InitializeOrder ==
    << "CreateDescriptorSetLayouts", "CreatePipelineLayouts", "LoadShaderCaches",
       "CreatePipelineCache", "CreateUtilityShaderVertexFormat", "CreateStaticSamplers",
       "CompileSharedShaders", "StreamBuffer::Create vertex", "StreamBuffer::Create uniform" >>

C12_State ==
    oc_state # "constructed" =>
        LET n == Len(init_log)
        IN  /\ n \in (1 .. 7) \cup { 9 }
            /\ \A i \in 1 .. n : init_log[i].step = InitializeOrder[i]
            /\ \A i \in 1 .. n : (~init_log[i].ok /\ i < n) => (i = 8 /\ n = 9)
            /\ init_ret <=> (n = 9 /\ \A i \in 1 .. n : init_log[i].ok)
            /\ init_ret <=> oc_state = "initialized"
            /\ init_ret => (m_utility_shader_vertex_buffer /\ m_utility_shader_uniform_buffer)
            /\ pc_shaders = "running" <=> n >= 3
            /\ m_pipeline_cache # VK_NULL_HANDLE <=> (n >= 4 /\ init_log[4].ok)
            /\ m_utility_shader_vertex_buffer => n = 9
            /\ m_utility_shader_uniform_buffer => n = 9

C12_Step ==
    (oc_state = "constructed" /\ oc_state' # "constructed") =>
        /\ Len(init_log') < 3 => UNCHANGED shaderVars
        /\ Len(init_log') < 4 => UNCHANGED pipeVars

\* C12: the calls Initialize makes are a prefix of the fixed order; a call that
\* returned false is the last one made (the two StreamBuffer::Create calls being one
\* step), and Initialize then returns false; a step that is not reached leaves no
\* trace (the shader caches are not loaded, the pipeline cache is neither read nor
\* created, the stream buffers stay null); Initialize returns true exactly when all
\* nine calls were made and succeeded, and then both stream buffers exist.
C12_InitializeStopsAtFirstFailure == []C12_State /\ [][C12_Step]_vars

\* C12's case: CreateStaticSamplers failed after the shader caches were loaded and
\* the pipeline cache was created; CompileSharedShaders and StreamBuffer::Create were
\* not called.
C12_Witness ==
    /\ oc_state = "failed"
    /\ Len(init_log) = 6
    /\ ~init_log[6].ok
    /\ pc_shaders = "running"
    /\ m_pipeline_cache # VK_NULL_HANDLE
    /\ ~m_utility_shader_vertex_buffer

-----------------------------------------------------------------------------
(* C13 *)

\* The step is a call of EncodeTextureToRam that found no encoding shader.
MissingShaderCall ==
    /\ enc_last' # enc_last \/ enc_log' # enc_log
    /\ enc_last'.op = "EncodeTextureToRam"
    /\ enc_last'.result = "missing shader"

C13_Step ==
    /\ MissingShaderCall =>
          /\ m_texture_encoding_shaders[enc_last'.format] = VK_NULL_HANDLE
          /\ enc_pc' = "idle"
          /\ enc_log' = << >>
          /\ UNCHANGED << m_current_render_pass, cmd_buffer, gpu_pending,
                          descriptor_sets_valid, pending_rebind, dest_mem,
                          m_encoding_texture, m_download_texture >>
    /\ (enc_pc = "idle" /\ enc_pc' = "StateTracker::EndRenderPass") =>
          m_texture_encoding_shaders[enc_args'.format] # VK_NULL_HANDLE

\* C13: a call of EncodeTextureToRam for a format whose encoding shader is
\* VK_NULL_HANDLE returns having executed no statement: the render pass stays as it
\* was, nothing is recorded or submitted, the descriptor sets and the dirty flags of
\* the StateTracker keep their state, and the memory at dest_ptr and both textures
\* are untouched; the call goes on to its statements only when the shader exists.
C13_MissingShaderDoesNothing == [][C13_Step]_vars

\* C13's case: EncodeTextureToRam was called for GX_TF_CMPR, which has no encoding
\* shader, inside an open render pass with valid descriptor sets, and both are
\* still in place.
C13_Witness ==
    /\ enc_last.op = "EncodeTextureToRam"
    /\ enc_last.result = "missing shader"
    /\ enc_last.format = "GX_TF_CMPR"
    /\ enc_last.in_pass
    /\ m_current_render_pass
    /\ descriptor_sets_valid
    /\ ~pending_rebind
    /\ cmd_buffer # << >>

-----------------------------------------------------------------------------
(* C14 *)

\* No dirty indicator is set.
NothingDirty ==
    /\ s_transform_matrices_changed = Clean
    /\ s_normal_matrices_changed = Clean
    /\ nPostTransformMatricesChanged = Clean
    /\ s_lights_changed = Clean
    /\ s_materials_changed = 0
    /\ s_tex_matrices_changed = << FALSE, FALSE >>
    /\ ~bViewportChanged
    /\ ~bProjectionChanged

\* The SetConstants run by the last call wrote nothing to the constant buffer.
NothingWritten ==
    /\ xf_written = NoWrites
    /\ \A r \in Regions : xf_synced[r].copied = << 0, 0 >>

C14_State ==
    xf_last.op = "SetConstants" =>
        /\ NothingDirty
        /\ xf_last.repeated => NothingWritten

C14_Step ==
    (xf_last.op = "SetConstants" /\ xf_last'.op = "SetConstants") =>
        /\ xf_last'.repeated
        /\ xf_written' = NoWrites

\* C14: when SetConstants returns the four dirty ranges are <<-1, -1>>, the material
\* mask is 0 and the texture-matrix, viewport and projection flags are false; a
\* SetConstants that follows a SetConstants with no call in between (no
\* invalidation, no flag set, no change of the phong settings) writes no constant.
C14_SetConstantsLeavesNothingDirty == []C14_State /\ [][C14_Step]_vars

\* C14's case: SetConstants ran twice in a row and the second run found nothing to
\* write.
C14_Witness ==
    /\ xf_last.op = "SetConstants"
    /\ xf_last.repeated
    /\ NothingDirty
    /\ NothingWritten

-----------------------------------------------------------------------------
(* C15 *)

\* The dirty indicators, as one value.
DirtyIndicators ==
    << s_transform_matrices_changed, s_normal_matrices_changed,
       nPostTransformMatricesChanged, s_lights_changed, s_tex_matrices_changed,
       s_materials_changed, bViewportChanged, bProjectionChanged >>

\* What a SetTexMatrixChanged step must do: group is 1 for A (Tex0..3) and 2 for B
\* (Tex4..7), old and new the register before and after, used the index the
\* flush read the group's matrices with (-1: it did not read them).
TexMatrixChangedStep(group, old, new, used) ==
    IF old = xf_last'.value
    THEN /\ ~xf_last'.flushed
         /\ new = old
         /\ UNCHANGED << DirtyIndicators, IsFlushed >>
         /\ xf_written' = NoWrites
    ELSE /\ xf_last'.flushed <=> ~IsFlushed
         /\ IsFlushed'
         /\ ~xf_last'.flushed => xf_written' = NoWrites
         /\ used # -1 => (xf_last'.flushed /\ used = old)
         /\ s_tex_matrices_changed'[group]
         /\ new = xf_last'.value

C15_Step ==
    /\ xf_last'.op = "SetTexMatrixChangedA" =>
          /\ TexMatrixChangedStep(1, matrix_index_a, matrix_index_a', xf_written'.index_a)
          /\ matrix_index_b' = matrix_index_b
    /\ xf_last'.op = "SetTexMatrixChangedB" =>
          /\ TexMatrixChangedStep(2, matrix_index_b, matrix_index_b', xf_written'.index_b)
          /\ matrix_index_a' = matrix_index_a

\* C15: SetTexMatrixChangedA/B with the value the register holds changes no dirty
\* indicator, flushes nothing and writes no constant; with another value it flushes
\* exactly when vertices are pending, the flush reads the group's texture matrices
\* with the old register value, and on return the group is marked dirty (the flush
\* did not consume the mark), the register holds the new value and the other
\* register is as before.
C15_TexMatrixChangeFlushesFirst == [][C15_Step]_vars

\* C15's case: SetTexMatrixChangedA with a new value flushed pending vertices; the
\* flush wrote the Tex0..3 matrices with the old index, and the group is dirty again
\* under the new one.
C15_Witness ==
    /\ xf_last.op = "SetTexMatrixChangedA"
    /\ xf_last.flushed
    /\ xf_written.index_a # -1
    /\ xf_written.index_a # matrix_index_a
    /\ matrix_index_a = xf_last.value
    /\ s_tex_matrices_changed[1]
    /\ IsFlushed

-----------------------------------------------------------------------------
(* C16 *)

\* The constant groups SetConstants writes on a dirty indicator.  The phong
\* constants are left out: they are written when the settings differ from the ones
\* last written, whatever the indicators.
FlaggedGroups ==
    Regions \cup { "materials", "tex_a", "tex_b", "depthparams", "projection" }

\* DoState changes the dirty indicators as Dirty() does in read mode, and not at all
\* in the other modes.
C16_DoStateStep ==
    xf_last'.op = "DoState" =>
        /\ xf_last'.log = DoStateStatements(xf_last'.mode)
        /\ IF xf_last'.mode = "MODE_READ"
           THEN /\ s_transform_matrices_changed' = << 0, 256 >>
                /\ s_normal_matrices_changed' = << 0, 96 >>
                /\ nPostTransformMatricesChanged' = << 0, 256 >>
                /\ s_lights_changed' = << 0, 128 >>
                /\ s_tex_matrices_changed' = << TRUE, TRUE >>
                /\ bProjectionChanged'
                /\ s_materials_changed' = 15
                /\ s_lights_phong' = 0
                /\ bViewportChanged' = bViewportChanged
           ELSE UNCHANGED << DirtyIndicators, s_lights_phong >>

\* The part of C16 that holds: in read mode DoState ends with Dirty(), after the six
\* p.Do calls, and leaves exactly what Dirty() leaves; in any other mode no dirty
\* indicator changes.
C16_ReadModeRunsDirty == [][C16_DoStateStep]_vars

\* The SetConstants that follows a DoState in read mode writes every group.
C16_NextSetConstantsStep ==
    (xf_last.op = "DoState" /\ xf_last.mode = "MODE_READ" /\ xf_last'.op = "SetConstants") =>
        FlaggedGroups \subseteq xf_written'.groups

\* C16: DoState in read mode marks every constant group dirty, as Dirty() does,
\* after the p.Do calls, so that the SetConstants that follows writes every group;
\* in any other mode it changes no dirty indicator.
C16_DoStateReadReuploadsEverything ==
    [][C16_DoStateStep /\ C16_NextSetConstantsStep]_vars

=============================================================================
